---------------------------- MODULE Spec2Model ----------------------------
(***************************************************************************)
(* A model of the XMR statistical-process-control engine of xmrit-hub      *)
(* (src/src/lib/xmr-calculations.ts) and of the chart orchestration that   *)
(* holds its overlay state (submetric-card.tsx).                           *)
(*                                                                         *)
(* Numbers.  Observation values are integers.  The engine's results that   *)
(* the source rounds to DECIMAL_PRECISION = 2 decimals are kept as integer *)
(* hundredths (13.00 is 1300).  Scaling constants are kept in thousandths  *)
(* (2.66 is 2660).  Every comparison of real quantities is carried out     *)
(* exactly, by cross-multiplication; the source carries them out in IEEE   *)
(* doubles, which can differ from the exact result only where the two      *)
(* sides are exactly equal as real numbers.                                *)
(*                                                                         *)
(* Indices.  The source's arrays are 0-based and every index list the      *)
(* engine returns is kept 0-based here; element i of a source array is     *)
(* element i + 1 of the TLA+ sequence.                                     *)
(***************************************************************************)
EXTENDS Integers, Sequences, FiniteSets, TLC

VARIABLES
    data,           \* DataPoint[] / MovingRangePoint[] handed to the engine
    useMedian,      \* mode flag of calculateXMRLimits
    limits,         \* XMRLimits handed to detectViolations
    trendLimits,    \* optional TrendLimits handed to detectViolations:
                    \* <<>> when absent, <<overlay>> when passed
    op,             \* which engine operation has produced `result`
    result,         \* the value the operation returned
    chart,          \* the state of a mounted SubmetricLineChart, whose
                    \* rawDataPoints are `data`
    dividers        \* DividerLine[] of the segmentation functions

vars == <<data, useMedian, limits, trendLimits, op, result, chart, dividers>>

----------------------------------------------------------------------------
(* Generic helpers                                                         *)

Abs(x) == IF x < 0 THEN -x ELSE x

Max(a, b) == IF a > b THEN a ELSE b

RECURSIVE SeqSum(_)
SeqSum(s) == IF s = <<>> THEN 0 ELSE Head(s) + SeqSum(Tail(s))

\* arr.map(d => d.value)
Values(d) == [i \in 1..Len(d) |-> d[i].value]

\* F(v) with v evaluated once.  (A LET definition or an operator argument
\* is evaluated again at each of its uses.)
Bind(v, F(_)) == CHOOSE r \in {F(x) : x \in {v}} : TRUE

\* [...arr].sort((a, b) => a - b): the k-th element is the value that has
\* fewer than k elements below it and at least k elements not above it
SortAsc(arr) ==
    Bind(arr, LAMBDA a :
        [k \in 1..Len(a) |->
            CHOOSE v \in {a[i] : i \in 1..Len(a)} :
                /\ Cardinality({i \in 1..Len(a) : a[i] < v}) < k
                /\ Cardinality({i \in 1..Len(a) : a[i] <= v}) >= k])

\* A set of naturals as the ascending sequence  .sort((a, b) => a - b)
SetToAscSeq(S) ==
    Bind(S, LAMBDA s :
        [k \in 1..Cardinality(s) |->
            CHOOSE x \in s : Cardinality({y \in s : y < x}) = k - 1])

SeqToSet(s) == {s[i] : i \in 1..Len(s)}

\* A series whose values are vals; the timestamp of a point is its position.
MkData(vals) == [i \in 1..Len(vals) |-> [timestamp |-> i, value |-> vals[i]]]

\* Math.floor(p / q) for q > 0
Floor(p, q) == p \div q

\* Math.round(x * 100) for the exact rational x = p / q, q > 0.  Math.round
\* rounds to the nearest integer.  When 100 * p / q lies exactly halfway
\* between two integers the double the source rounds may lie on either side
\* of the half (-0.995 * 100 is -99.50000000000001): `up` chooses the side.
RoundHundredths(p, q, up) ==
    LET t == 100 * (p % q)
        w == 100 * Floor(p, q) + Floor(t, q)
        r == t % q
    IN  IF 2 * r > q \/ (2 * r = q /\ up) THEN w + 1 ELSE w

\* 100 * p / q lies exactly halfway between two integers
ExactHalf(p, q) == 2 * ((100 * (p % q)) % q) = q

----------------------------------------------------------------------------
(* Series utilities and the control-limit calculator                       *)

NPL_SCALING == 2660
URL_SCALING == 3268
MEDIAN_NPL_SCALING == 3145
MEDIAN_URL_SCALING == 3865

\* Moving ranges that keep the sign of the difference
calculateMovingRangesSigned(d) ==
    IF Len(d) < 2 THEN <<>>
    ELSE [i \in 1..(Len(d) - 1) |->
            [timestamp |-> d[i + 1].timestamp,
             value     |-> d[i + 1].value,
             range     |-> d[i + 1].value - d[i].value]]

\* calculateMovingRanges: n - 1 points, the i-th carrying data[i + 1]
calculateMovingRanges(d) ==
    IF Len(d) < 2 THEN <<>>
    ELSE [i \in 1..(Len(d) - 1) |->
            [timestamp |-> d[i + 1].timestamp,
             value     |-> d[i + 1].value,
             range     |-> Abs(d[i + 1].value - d[i].value)]]

\* calculateMedian, as the numerator over the denominator 2
calculateMedian2(arr) ==
    IF Len(arr) = 0 THEN 0
    ELSE Bind(SortAsc(arr), LAMBDA sorted :
            LET mid == Len(sorted) \div 2
            IN  IF Len(sorted) % 2 = 0
                THEN sorted[mid] + sorted[mid + 1]
                ELSE 2 * sorted[mid + 1])

LimitFields ==
    {"avgX", "avgMovement", "UNPL", "LNPL", "URL",
     "lowerQuartile", "upperQuartile"}

ZeroLimits == [f \in LimitFields |-> 0]

\* The unrounded quantities of calculateXMRLimits for a series of at least
\* 2 points, each as an exact fraction <<numerator, denominator>>.
\* avgX = ax / dx and avgMovement = am / dm; the limits are taken over the
\* common denominator den = 1000 * dx * dm.
LimitTerms(d, median) ==
    LET values      == Values(d)
        ranges      == calculateMovingRanges(d)
        rangeValues == [i \in 1..Len(ranges) |-> ranges[i].range]
        ax == IF median THEN calculateMedian2(values) ELSE SeqSum(values)
        dx == IF median THEN 2 ELSE Len(values)
        am == IF Len(rangeValues) > 0
              THEN IF median THEN calculateMedian2(rangeValues)
                   ELSE SeqSum(rangeValues)
              ELSE 0
        dm == IF Len(rangeValues) > 0
              THEN IF median THEN 2 ELSE Len(rangeValues)
              ELSE 1
        nplScaling == IF median THEN MEDIAN_NPL_SCALING ELSE NPL_SCALING
        urlScaling == IF median THEN MEDIAN_URL_SCALING ELSE URL_SCALING
        den   == 1000 * dx * dm
        avg   == 1000 * ax * dm
        delta == nplScaling * am * dx
        unpl  == avg + delta
        lnpl  == avg - delta
    IN  [avgX          |-> <<ax, dx>>,
         avgMovement   |-> <<am, dm>>,
         UNPL          |-> <<unpl, den>>,
         LNPL          |-> <<lnpl, den>>,
         URL           |-> <<urlScaling * am, 1000 * dm>>,
         lowerQuartile |-> <<lnpl + avg, 2 * den>>,
         upperQuartile |-> <<unpl + avg, 2 * den>>]

\* The fields whose unrounded value is an exact half of a hundredth
ExactHalves(d, median) ==
    IF Len(d) < 2 THEN {}
    ELSE Bind(LimitTerms(d, median), LAMBDA t :
            {f \in LimitFields : ExactHalf(t[f][1], t[f][2])})

\* A calculator that computes limits from a single point
calculateXMRLimitsFromOne(d, median, up) ==
    IF Len(d) < 1 THEN ZeroLimits
    ELSE Bind(LimitTerms(d, median), LAMBDA t :
            [f \in LimitFields |-> RoundHundredths(t[f][1], t[f][2], f \in up)])

\* calculateXMRLimits; the returned fields are hundredths.  `up` is the set
\* of fields whose exact halves come out rounded upwards.
calculateXMRLimits(d, median, up) ==
    IF Len(d) < 2 THEN ZeroLimits
    ELSE Bind(LimitTerms(d, median), LAMBDA t :
            [f \in LimitFields |-> RoundHundredths(t[f][1], t[f][2], f \in up)])

----------------------------------------------------------------------------
(* Trend lines                                                             *)

\* createTrendLines for non-null stats.  m, c and avgMR are hundredths; the
\* centre of the point at 0-based index i is i * m + c, and each line is
\* rounded to hundredths.  up names the lines whose exact halves round
\* upward.  (The four "reduced" lines are not modelled: no detector reads
\* them.)
createTrendLines(stats, d, up) ==
    LET centre(i) == (i - 1) * stats.m + stats.c
        spread    == stats.avgMR * NPL_SCALING
        line(f(_)) ==
            [i \in 1..Len(d) |-> [timestamp |-> d[i].timestamp, value |-> f(i)]]
        unplValue(i) ==
            RoundHundredths(1000 * centre(i) + spread, 100000, "unpl" \in up)
        lnplValue(i) ==
            RoundHundredths(1000 * centre(i) - spread, 100000, "lnpl" \in up)
        lowerQuartileValue(i) ==
            RoundHundredths(2000 * centre(i) - spread, 200000,
                            "lowerQuartile" \in up)
        upperQuartileValue(i) ==
            RoundHundredths(2000 * centre(i) + spread, 200000,
                            "upperQuartile" \in up)
    IN  [centreLine    |-> line(centre),
         unpl          |-> line(unplValue),
         lnpl          |-> line(lnplValue),
         lowerQuartile |-> line(lowerQuartileValue),
         upperQuartile |-> line(upperQuartileValue)]

----------------------------------------------------------------------------
(* Violation detector.  A point's value is in units, every limit is in     *)
(* hundredths.  tl is <<>> or <<TrendLimits>>; index is 0-based.           *)

PointValue(d, index) == 100 * d[index + 1].value

\* trendLimits ? trendLimits.<line>[index]?.value : limits.<field>
UNPLAt(lim, tl, index) ==
    IF tl # <<>> THEN tl[1].unpl[index + 1].value ELSE lim.UNPL

LNPLAt(lim, tl, index) ==
    IF tl # <<>> THEN tl[1].lnpl[index + 1].value ELSE lim.LNPL

CentreAt(lim, tl, index) ==
    IF tl # <<>> THEN tl[1].centreLine[index + 1].value ELSE lim.avgX

UpperQuartileAt(lim, tl, index) ==
    IF tl # <<>> THEN tl[1].upperQuartile[index + 1].value
    ELSE lim.upperQuartile

LowerQuartileAt(lim, tl, index) ==
    IF tl # <<>> THEN tl[1].lowerQuartile[index + 1].value
    ELSE lim.lowerQuartile

\* point.value < LNPL || point.value > UNPL, against the static limits only
OutsideStatic(d, lim, tl, index) ==
    \/ PointValue(d, index) < lim.LNPL
    \/ PointValue(d, index) > lim.UNPL

\* point.value < LNPL || point.value > UNPL
Outside(d, lim, tl, index) ==
    \/ PointValue(d, index) < LNPLAt(lim, tl, index)
    \/ PointValue(d, index) > UNPLAt(lim, tl, index)

\* checkOutsideLimits (Rule 1)
RECURSIVE checkOutsideLimitsFrom(_, _, _, _)
checkOutsideLimitsFrom(d, lim, tl, index) ==
    IF index >= Len(d) THEN <<>>
    ELSE (IF Outside(d, lim, tl, index) THEN <<index>> ELSE <<>>)
            \o checkOutsideLimitsFrom(d, lim, tl, index + 1)

checkOutsideLimits(d, lim, tl) == checkOutsideLimitsFrom(d, lim, tl, 0)

\* Counters that a point on the centre line leaves as they are
RunCountersNoReset(v, c, above, below) ==
    IF v > c THEN <<above + 1, 0>>
    ELSE IF v < c THEN <<0, below + 1>>
    ELSE <<above, below>>

\* <<consecutiveAbove, consecutiveBelow>> after a point of value v against
\* the centre c
RunCounters(v, c, above, below) ==
    IF v > c THEN <<above + 1, 0>>
    ELSE IF v < c THEN <<0, below + 1>>
    ELSE <<0, 0>>

\* checkRunningPoints (Rule 2): the forEach with its two counters
RECURSIVE checkRunningPointsFrom(_, _, _, _, _, _)
checkRunningPointsFrom(d, lim, tl, index, above, below) ==
    IF index >= Len(d) THEN <<>>
    ELSE LET n == RunCounters(PointValue(d, index), CentreAt(lim, tl, index),
                              above, below)
         IN  (IF n[1] >= 8 \/ n[2] >= 8 THEN <<index>> ELSE <<>>)
                \o checkRunningPointsFrom(d, lim, tl, index + 1, n[1], n[2])

checkRunningPoints(d, lim, tl) ==
    IF Len(d) < 8 THEN <<>> ELSE checkRunningPointsFrom(d, lim, tl, 0, 0, 0)

\* violations.push(j) for j = lo..hi unless violations.includes(j)
RECURSIVE PushNew(_, _, _)
PushNew(violations, lo, hi) ==
    IF lo > hi THEN violations
    ELSE PushNew(IF lo \in SeqToSet(violations) THEN violations
                 ELSE Append(violations, lo), lo + 1, hi)

\* A window test that asks for all 4 points
FourNearLimitAll(belowQuartile, aboveQuartile) ==
    belowQuartile >= 4 \/ aboveQuartile >= 4

\* belowQuartile >= 3 || aboveQuartile >= 3
FourNearLimitHit(belowQuartile, aboveQuartile) ==
    belowQuartile >= 3 \/ aboveQuartile >= 3

\* checkFourNearLimit (Rule 3): the loop over windows [i-3, i]
RECURSIVE checkFourNearLimitFrom(_, _, _, _, _)
checkFourNearLimitFrom(d, lim, tl, i, violations) ==
    IF i >= Len(d) THEN violations
    ELSE LET window == (i - 3)..i
             belowQuartile ==
                 Cardinality({j \in window :
                     PointValue(d, j) < LowerQuartileAt(lim, tl, j)})
             aboveQuartile ==
                 Cardinality({j \in window :
                     /\ ~(PointValue(d, j) < LowerQuartileAt(lim, tl, j))
                     /\ PointValue(d, j) > UpperQuartileAt(lim, tl, j)})
         IN  checkFourNearLimitFrom(d, lim, tl, i + 1,
                 IF FourNearLimitHit(belowQuartile, aboveQuartile)
                 THEN PushNew(violations, i - 3, i)
                 ELSE violations)

checkFourNearLimit(d, lim, tl) ==
    IF Len(d) < 4 THEN <<>> ELSE checkFourNearLimitFrom(d, lim, tl, 3, <<>>)

\* A boundary at the 1-sigma ratio 1 / 2.66
BeyondOneSigma(d, lim, tl, j) ==
    LET centerLine == CentreAt(lim, tl, j)
    IN  \/ 266 * (PointValue(d, j) - centerLine)
              > 100 * (UNPLAt(lim, tl, j) - centerLine)
        \/ 266 * (centerLine - PointValue(d, j))
              > 100 * (centerLine - LNPLAt(lim, tl, j))

\* value > upperTwoSigma || value < lowerTwoSigma, where
\*   upperTwoSigma = centerLine + (UNPL - centerLine) * (2.0 / 2.66)
\*   lowerTwoSigma = centerLine - (centerLine - LNPL) * (2.0 / 2.66)
BeyondTwoSigma(d, lim, tl, j) ==
    LET centerLine == CentreAt(lim, tl, j)
    IN  \/ 266 * (PointValue(d, j) - centerLine)
              > 200 * (UNPLAt(lim, tl, j) - centerLine)
        \/ 266 * (centerLine - PointValue(d, j))
              > 200 * (centerLine - LNPLAt(lim, tl, j))

\* checkTwoOfThreeBeyondTwoSigma (Rule 4): the loop over windows [i-2, i]
RECURSIVE checkTwoOfThreeFrom(_, _, _, _, _)
checkTwoOfThreeFrom(d, lim, tl, i, violations) ==
    IF i >= Len(d) THEN violations
    ELSE LET beyondTwoSigma ==
                 Cardinality({j \in (i - 2)..i : BeyondTwoSigma(d, lim, tl, j)})
         IN  checkTwoOfThreeFrom(d, lim, tl, i + 1,
                 IF beyondTwoSigma >= 2
                 THEN PushNew(violations, i - 2, i)
                 ELSE violations)

checkTwoOfThreeBeyondTwoSigma(d, lim, tl) ==
    IF Len(d) < 3 THEN <<>> ELSE checkTwoOfThreeFrom(d, lim, tl, 2, <<>>)

\* A band as wide as the limits themselves
WithinLimits(d, lim, tl, index) ==
    /\ PointValue(d, index) >= LNPLAt(lim, tl, index)
    /\ PointValue(d, index) <= UNPLAt(lim, tl, index)

\* point.value >= lowerOneSigma && point.value <= upperOneSigma, where the
\* boundaries are centerLine +/- (limit - centerLine) * (1.0 / 2.66)
WithinOneSigma(d, lim, tl, index) ==
    LET centerLine == CentreAt(lim, tl, index)
    IN  /\ 266 * (centerLine - PointValue(d, index))
              <= 100 * (centerLine - LNPLAt(lim, tl, index))
        /\ 266 * (PointValue(d, index) - centerLine)
              <= 100 * (UNPLAt(lim, tl, index) - centerLine)

\* checkFifteenWithinOneSigma (Rule 5)
RECURSIVE checkFifteenFrom(_, _, _, _, _)
checkFifteenFrom(d, lim, tl, index, consecutive) ==
    IF index >= Len(d) THEN <<>>
    ELSE LET c1 == IF WithinOneSigma(d, lim, tl, index)
                   THEN consecutive + 1 ELSE 0
         IN  (IF c1 >= 15 THEN <<index>> ELSE <<>>)
                \o checkFifteenFrom(d, lim, tl, index + 1, c1)

checkFifteenWithinOneSigma(d, lim, tl) ==
    IF Len(d) < 15 THEN <<>> ELSE checkFifteenFrom(d, lim, tl, 0, 0)

detectViolations(d, lim, tl) ==
    IF Len(d) = 0
    THEN [outsideLimits |-> <<>>, runningPoints |-> <<>>,
          fourNearLimit |-> <<>>, twoOfThreeBeyondTwoSigma |-> <<>>,
          fifteenWithinOneSigma |-> <<>>]
    ELSE [outsideLimits |-> checkOutsideLimits(d, lim, tl),
          runningPoints |-> checkRunningPoints(d, lim, tl),
          fourNearLimit |-> checkFourNearLimit(d, lim, tl),
          twoOfThreeBeyondTwoSigma |->
              checkTwoOfThreeBeyondTwoSigma(d, lim, tl),
          fifteenWithinOneSigma |-> checkFifteenWithinOneSigma(d, lim, tl)]

----------------------------------------------------------------------------
(* Outlier consensus engine                                                *)

\* OUTLIER_DETECTION
MIN_DATA_POINTS == 6
\* IQR multipliers, in tenths (1.0, 1.2, 1.5)
IQR_MULTIPLIER_AGGRESSIVE == 10
IQR_MULTIPLIER_MODERATE == 12
IQR_MULTIPLIER_CONSERVATIVE == 15
\* z-score thresholds, in tenths (1.8, 2.2)
ZSCORE_THRESHOLD == 18
ZSCORE_STRICT_THRESHOLD == 22
\* percentile threshold, in hundredths (0.08)
PERCENTILE_THRESHOLD == 8
\* MAD multiplier, in tenths (2.2); the 0.6745 of the modified z-score in
\* ten-thousandths
MAD_MULTIPLIER == 22
MAD_CONSISTENCY == 6745
\* maximal outlier fraction, in hundredths (0.25)
MAX_OUTLIER_PERCENTAGE == 25
\* variation threshold, in thousandths (0.001)
VARIATION_THRESHOLD == 1
\* the extreme z-score of the consensus filter, in tenths (3.0)
EXTREME_ZSCORE == 30

\* With n values of sum S:  mean = S / n,  variance = SqDev / n^2 and
\* value - mean = Dev / n, so that  zScore = |Dev| / sqrt(SqDev).
SumSq(values) == SeqSum([i \in 1..Len(values) |-> values[i] * values[i]])

SqDev(values) ==
    Len(values) * SumSq(values) - SeqSum(values) * SeqSum(values)

Dev(values, i) == Len(values) * values[i] - SeqSum(values)

\* |dev| / sqrt(sq) > t / 10, the ratio being 0 when sq is 0
RatioAbove(dev, sq, t) == sq > 0 /\ 100 * dev * dev > t * t * sq

\* |dev| / sqrt(sq) < t / 10
RatioBelow(dev, sq, t) == sq = 0 \/ 100 * dev * dev < t * t * sq

\* zScore > t / 10, with  zScore = stdDev > 0 ? |value - mean| / stdDev : 0
\* (i is a TLA+ position)
ZScoreAbove(values, i, t) == RatioAbove(Dev(values, i), SqDev(values), t)

\* zScore < t / 10
ZScoreBelow(values, i, t) == RatioBelow(Dev(values, i), SqDev(values), t)

\* analyzeDataDistribution(values).iqrMultiplier, in tenths.
\* coefficientOfVariation = mean != 0 ? stdDev / |mean| : 0, and
\* CV < c / 10  iff  100 * SqDev < c^2 * S^2  when the mean is not 0.
analyzeDataDistribution(values) ==
    IF Len(values) = 0 THEN IQR_MULTIPLIER_CONSERVATIVE
    ELSE Bind([S |-> SeqSum(values), sq |-> SqDev(values)], LAMBDA t :
            LET cvBelow(c) == \/ t.S = 0
                              \/ 100 * t.sq < c * c * t.S * t.S
            IN  IF cvBelow(1) THEN IQR_MULTIPLIER_AGGRESSIVE
                ELSE IF cvBelow(3) THEN IQR_MULTIPLIER_MODERATE
                ELSE IQR_MULTIPLIER_CONSERVATIVE)

\* detectOutliersIQR: the set of flagged 0-based indices
detectOutliersIQR(values) ==
    IF Len(values) < MIN_DATA_POINTS THEN {}
    ELSE
    Bind([sorted  |-> SortAsc(values),
          median2 |-> calculateMedian2(values),
          mult    |-> analyzeDataDistribution(values)], LAMBDA t :
        LET n   == Len(values)
            q1  == t.sorted[Floor(n * 25, 100) + 1]
            q3  == t.sorted[Floor(n * 75, 100) + 1]
            iqr == q3 - q1
        IN  IF iqr = 0
            THEN \* |value - median| / max(|median|, 1) > VARIATION_THRESHOLD
                 {i - 1 : i \in {j \in 1..n :
                     /\ 1000 * Abs(2 * values[j] - t.median2)
                            > VARIATION_THRESHOLD * Max(Abs(t.median2), 2)
                     /\ 2 * values[j] # t.median2}}
            ELSE {i - 1 : i \in {j \in 1..n :
                     \/ 10 * values[j] < 10 * q1 - t.mult * iqr
                     \/ 10 * values[j] > 10 * q3 + t.mult * iqr}})

\* detectOutliersZScore with the default threshold
detectOutliersZScore(values) ==
    IF Len(values) < MIN_DATA_POINTS THEN {}
    ELSE Bind([S |-> SeqSum(values), sq |-> SqDev(values)], LAMBDA t :
            IF t.sq = 0 THEN {}
            ELSE {i - 1 : i \in {j \in 1..Len(values) :
                     RatioAbove(Len(values) * values[j] - t.S, t.sq,
                                ZSCORE_THRESHOLD)}})

\* detectOutliersMAD.  median2 = 2 * median; dev2[i] = 2 * |value - median|;
\* mad4 = 4 * mad.
detectOutliersMAD(values) ==
    IF Len(values) < MIN_DATA_POINTS THEN {}
    ELSE
    Bind(calculateMedian2(values), LAMBDA median2 :
        Bind([i \in 1..Len(values) |-> Abs(2 * values[i] - median2)],
             LAMBDA dev2 :
            Bind(calculateMedian2(dev2), LAMBDA mad4 :
                IF mad4 = 0 THEN {}
                ELSE \* |0.6745 * (value - median) / mad| > MAD_MULTIPLIER
                     {i - 1 : i \in {j \in 1..Len(values) :
                         MAD_CONSISTENCY * 2 * dev2[j]
                             > MAD_MULTIPLIER * 1000 * mad4}})))

\* detectOutliersPercentile
detectOutliersPercentile(values) ==
    IF Len(values) < MIN_DATA_POINTS THEN {}
    ELSE
    Bind(SortAsc(values), LAMBDA sorted :
        LET n == Len(values)
            lowerThreshold == sorted[Floor(n * PERCENTILE_THRESHOLD, 100) + 1]
            upperThreshold ==
                sorted[Floor(n * (100 - PERCENTILE_THRESHOLD), 100) + 1]
        IN  {i - 1 : i \in {j \in 1..n :
                values[j] < lowerThreshold \/ values[j] > upperThreshold}})

\* The four detector results in the order the source tallies them.
Detectors(values) ==
    << detectOutliersIQR(values), detectOutliersZScore(values),
       detectOutliersMAD(values), detectOutliersPercentile(values) >>

\* index |-> number of the detector results det that hold it
Votes(det, n) ==
    [i \in 0..(n - 1) |-> Cardinality({k \in 1..4 : i \in det[k]})]

\* candidateOutliers: index |-> number of detectors that flagged it
candidateOutliers(values) ==
    Bind(Detectors(values), LAMBDA det : Votes(det, Len(values)))

\* A consensus filter that lets any flagged point through
AcceptedAnyFlag(methodCount, extreme) == methodCount >= 1

\* The consensus filter:  methodCount >= 2 ||
\*                        (methodCount >= 1 && zScore > 3.0)
Accepted(methodCount, extreme) ==
    methodCount >= 2 \/ (methodCount >= 1 /\ extreme)

\* No cap on the number of outliers
maxOutliersNoCap(n) == n

\* maxOutliers = Math.floor(data.length * MAX_OUTLIER_PERCENTAGE)
maxOutliers(n) == Floor(n * MAX_OUTLIER_PERCENTAGE, 100)

\* The recency guard's test:  lastPointZScore < ZSCORE_STRICT_THRESHOLD
LastPointRestored(values) ==
    ZScoreBelow(values, Len(values), ZSCORE_STRICT_THRESHOLD)

\* The tallies the ranking reads: per index the vote count, the first
\* detector that flagged it and |value - mean| * n; and stdDev^2 * n^2.
Tally(values) ==
    Bind([det |-> Detectors(values), S |-> SeqSum(values)], LAMBDA t :
        LET n == Len(values)
        IN  [count  |-> Votes(t.det, n),
             first  |-> [i \in 0..(n - 1) |->
                           IF \A k \in 1..4 : i \notin t.det[k] THEN 0
                           ELSE CHOOSE k \in 1..4 :
                                  /\ i \in t.det[k]
                                  /\ \A j \in 1..(k - 1) : i \notin t.det[j]],
             absDev |-> [i \in 0..(n - 1) |-> Abs(n * values[i + 1] - t.S)],
             sq     |-> SqDev(values)])

\* sortedCandidates.slice(0, maxOutliers) as a set of indices.  The Map
\* lists a candidate at the first detector that flagged it, then by index
\* (each detector lists indices ascending); the sort by methodCount, then
\* zScore, both descending, is stable.
ConsensusIndices(values) ==
    Bind(Tally(values), LAMBDA t :
        LET n == Len(values)
            before(a, b) ==
                \/ t.count[a] > t.count[b]
                \/ t.count[a] = t.count[b] /\ t.absDev[a] > t.absDev[b]
                \/ /\ t.count[a] = t.count[b]
                   /\ t.absDev[a] = t.absDev[b]
                   /\ \/ t.first[a] < t.first[b]
                      \/ t.first[a] = t.first[b] /\ a < b
        IN  Bind({i \in 0..(n - 1) :
                     /\ t.count[i] >= 1
                     /\ Accepted(t.count[i],
                                 RatioAbove(t.absDev[i], t.sq, EXTREME_ZSCORE))},
                 LAMBDA candidates :
                     {a \in candidates :
                         Cardinality({b \in candidates : before(b, a)})
                             < maxOutliers(n)}))

\* "Protect the most recent point unless it's an extreme outlier"
finalOutlierIndices(values) ==
    Bind(ConsensusIndices(values), LAMBDA chosen :
        LET lastIndex == Len(values) - 1
        IN  IF lastIndex \in chosen /\ LastPointRestored(values)
            THEN chosen \ {lastIndex}
            ELSE chosen)

\* data.forEach(...): the points at / not at the given indices, in order
RECURSIVE SelectPoints(_, _, _, _)
SelectPoints(d, i, indices, keepListed) ==
    IF i > Len(d) THEN <<>>
    ELSE IF ((i - 1) \in indices) = keepListed
         THEN <<d[i]>> \o SelectPoints(d, i + 1, indices, keepListed)
         ELSE SelectPoints(d, i + 1, indices, keepListed)

\* A removal that leaves the outliers in the cleaned series
removeOutliersFromDataKeepingAll(d) ==
    IF Len(d) < MIN_DATA_POINTS
    THEN [cleanedData |-> d, removedOutliers |-> <<>>, outlierIndices |-> <<>>]
    ELSE Bind(Bind(Values(d), LAMBDA values : finalOutlierIndices(values)),
              LAMBDA final :
            [cleanedData     |-> d,
             removedOutliers |-> SelectPoints(d, 1, final, TRUE),
             outlierIndices  |-> SetToAscSeq(final)])

removeOutliersFromData(d) ==
    IF Len(d) < MIN_DATA_POINTS
    THEN [cleanedData |-> d, removedOutliers |-> <<>>, outlierIndices |-> <<>>]
    ELSE Bind(Bind(Values(d), LAMBDA values : finalOutlierIndices(values)),
              LAMBDA final :
            [cleanedData     |-> SelectPoints(d, 1, final, FALSE),
             removedOutliers |-> SelectPoints(d, 1, final, TRUE),
             outlierIndices  |-> SetToAscSeq(final)])

calculateLimitsWithOutlierRemoval(d, up) ==
    IF Len(d) < MIN_DATA_POINTS
    THEN [limits |-> calculateXMRLimits(d, FALSE, up), cleanedData |-> d,
          removedOutliers |-> <<>>, outlierIndices |-> <<>>]
    ELSE Bind(removeOutliersFromData(d), LAMBDA r :
            [limits          |-> calculateXMRLimits(r.cleanedData, FALSE, up),
             cleanedData     |-> r.cleanedData,
             removedOutliers |-> r.removedOutliers,
             outlierIndices  |-> r.outlierIndices])

\* the rounding choices open to calculateLimitsWithOutlierRemoval(d)
CleanedHalves(d) ==
    Bind(removeOutliersFromData(d).cleanedData, LAMBDA cleaned :
        SUBSET ExactHalves(cleaned, FALSE))

----------------------------------------------------------------------------
(* The outlier engine applied to bounded inputs                            *)

MaxLen == 7
MaxVal == 2

\* every series of at most MaxLen points with values in 0..MaxVal
RECURSIVE SeqsUpTo(_, _)
SeqsUpTo(S, n) ==
    IF n = 0 THEN {<<>>}
    ELSE LET shorter == SeqsUpTo(S, n - 1)
         IN  shorter \cup {Append(s, v) : s \in {t \in shorter : Len(t) = n - 1},
                                          v \in S}

\* Longer series: n equal points and a single point one unit above them.
\* A z-score above 3.0 needs at least 11 points; with the base 1001 the
\* spike is within 0.1% of the median.
SpikeLens == {11, 12}
SpikeBases == {0, 1001}

Spike(base, n, pos) == [i \in 1..n |-> IF i = pos THEN base + 1 ELSE base]

SpikeSeries ==
    UNION {{Spike(b, n, pos) : b \in SpikeBases, pos \in {1, n \div 2, n}} :
              n \in SpikeLens}

\* Series of 8 and 9 points from which two points are removed
TwoSpikeSeries == {<<2, 2, 2, 4, 2, 2, 0, 2>>, <<1, 1, 1, 1, 5, 1, 1, 5, 1>>}

OutlierInputs ==
    {MkData(v) : v \in SeqsUpTo(0..MaxVal, MaxLen)}
        \cup {MkData(v) : v \in SpikeSeries}
        \cup {MkData(v) : v \in TwoSpikeSeries}

NoResult == [none |-> TRUE]
NoChart == [mounted |-> FALSE]

InitOutliers ==
    /\ data \in OutlierInputs
    /\ useMedian = FALSE
    /\ limits = ZeroLimits
    /\ trendLimits = <<>>
    /\ op = "none"
    /\ result = NoResult
    /\ chart = NoChart
    /\ dividers = <<>>

RemoveOutliers ==
    /\ op = "none"
    /\ op' = "removeOutliersFromData"
    /\ result' = removeOutliersFromData(data)
    /\ UNCHANGED <<data, useMedian, limits, trendLimits, chart, dividers>>

LimitsWithOutlierRemoval ==
    /\ op = "none"
    /\ op' = "calculateLimitsWithOutlierRemoval"
    /\ \E up \in CleanedHalves(data) :
          result' = calculateLimitsWithOutlierRemoval(data, up)
    /\ UNCHANGED <<data, useMedian, limits, trendLimits, chart, dividers>>

NextOutliers == RemoveOutliers \/ LimitsWithOutlierRemoval

SpecOutliers == InitOutliers /\ [][NextOutliers]_vars

OutliersDone ==
    op \in {"removeOutliersFromData", "calculateLimitsWithOutlierRemoval"}

----------------------------------------------------------------------------
(* The control-limit calculator applied to bounded inputs                  *)

MaxLimLen == 5

\* values on both sides of zero
LimitVals == (-1)..MaxVal

\* Example 1 of the specification
Example1 == <<10, 12, 11, 13, 12, 14, 13, 15, 14, 16>>

LimitInputs ==
    {MkData(v) : v \in SeqsUpTo(LimitVals, MaxLimLen)}
        \cup {MkData(Example1)}

InitLimits ==
    /\ data \in LimitInputs
    /\ useMedian \in BOOLEAN
    /\ limits = ZeroLimits
    /\ trendLimits = <<>>
    /\ op = "none"
    /\ result = NoResult
    /\ chart = NoChart
    /\ dividers = <<>>

CalcLimits ==
    /\ op = "none"
    /\ op' = "calculateXMRLimits"
    /\ \E up \in SUBSET ExactHalves(data, useMedian) :
          result' = calculateXMRLimits(data, useMedian, up)
    /\ UNCHANGED <<data, useMedian, limits, trendLimits, chart, dividers>>

NextLimits == CalcLimits

SpecLimits == InitLimits /\ [][NextLimits]_vars

----------------------------------------------------------------------------
(* The violation detector applied to bounded inputs                        *)

MaxWinLen == 5
MaxRunLen == 9
MaxFifteenLen == 16
MaxBreaks == 2

\* values around every boundary of the limits below, and values around the
\* centre line only
WideVals == {0, 2, 4, 8, 9}
NarrowVals == {3, 4, 5}

\* Limits as calculateXMRLimits produces them (avgX 4.00, avgMovement 1.00)
\* and manually locked limits (centre 4.00 between 0.00 and 8.00).
ComputedLimits ==
    [avgX |-> 400, avgMovement |-> 100, UNPL |-> 666, LNPL |-> 134,
     URL |-> 327, lowerQuartile |-> 267, upperQuartile |-> 533]

LockedLimits ==
    [avgX |-> 400, avgMovement |-> 100, UNPL |-> 800, LNPL |-> 0,
     URL |-> 327, lowerQuartile |-> 200, upperQuartile |-> 600]

\* Regression stats of a rising and of a flat trend (hundredths)
RisingTrend == [m |-> 100, c |-> 250, avgMR |-> 100]
FlatTrend == [m |-> 0, c |-> 450, avgMR |-> 100]

\* The moving-range points of a series that starts with vals[1] twice
MkPoints(vals) ==
    IF vals = <<>> THEN <<>>
    ELSE calculateMovingRanges(MkData(<<Head(vals)>> \o vals))

\* short series over the wide values, long series over the narrow ones
WindowInputs == {MkPoints(v) : v \in SeqsUpTo(WideVals, MaxWinLen)}
RunInputs == {MkPoints(v) : v \in SeqsUpTo(NarrowVals, MaxRunLen)}

\* series of 15 or more points that stay at one value of the 1-sigma band
\* (3 and 5 are its edges under ComputedLimits) except at a few breaks
FifteenInputs ==
    {MkPoints([i \in 1..n |-> IF i \in breaks THEN out ELSE within]) :
        n \in 15..MaxFifteenLen,
        breaks \in {b \in SUBSET (1..MaxFifteenLen) :
                       Cardinality(b) <= MaxBreaks},
        out \in {2, 6}, within \in {3, 4, 5}}

InitRules ==
    /\ useMedian = FALSE
    /\ \/ /\ data \in WindowInputs
          /\ \/ limits \in {ComputedLimits, LockedLimits} /\ trendLimits = <<>>
             \/ /\ limits = ComputedLimits
                /\ \E stats \in {RisingTrend, FlatTrend} :
                      trendLimits = <<createTrendLines(stats, data, {})>>
       \/ /\ data \in RunInputs
          /\ limits = ComputedLimits
          /\ trendLimits \in {<<>>, <<createTrendLines(FlatTrend, data, {})>>}
       \/ /\ data \in FifteenInputs
          /\ limits = ComputedLimits
          /\ trendLimits \in {<<>>, <<createTrendLines(FlatTrend, data, {})>>}
    /\ op = "none"
    /\ result = NoResult
    /\ chart = NoChart
    /\ dividers = <<>>

DetectViolations ==
    /\ op = "none"
    /\ op' = "detectViolations"
    /\ result' = detectViolations(data, limits, trendLimits)
    /\ UNCHANGED <<data, useMedian, limits, trendLimits, chart, dividers>>

NextRules == DetectViolations

SpecRules == InitRules /\ [][NextRules]_vars

----------------------------------------------------------------------------
(* SpecChart: the chart orchestration of submetric-card.tsx.  `chart`      *)
(* holds the component's useState cells that decide which overlay is       *)
(* active, with the source's names; null is <<>> and a non-null value v is *)
(* <<v>>.  The numeric overlay parameters (trendGradient, trendIntercept,  *)
(* storedTrendLines, seasonalFactors, seasonalityPeriod and -Grouping) are *)
(* not kept: no guard reads their values.  `dialog` names the open modal   *)
(* dialog.                                                                 *)

MINIMUM_XMR_DATA_POINTS == 6

\* n * sumX2 - sumX * sumX of calculateLinearRegression, x = 0 .. n-1
RegressionDenominator(n) ==
    LET xs == [i \in 1..n |-> i - 1]
    IN  n * SeqSum([i \in 1..n |-> xs[i] * xs[i]]) - SeqSum(xs) * SeqSum(xs)

\* calculateRegressionStats(d) is not null
HasRegressionStats(d) == Len(d) >= 2 /\ RegressionDenominator(Len(d)) # 0

\* calculateSeasonalFactors(d, period, "none").factors.length > 0: every
\* point falls in a period, so a non-empty series has at least one factor
HasSeasonalFactors(d) == Len(d) # 0

\* coefficientOfVariation < VARIATION_THRESHOLD, the coefficient being 0
\* when the mean is 0
LowVariation(values) ==
    Bind(SeqSum(values), LAMBDA s :
        \/ s = 0
        \/ 1000000 * SqDev(values)
               < VARIATION_THRESHOLD * VARIATION_THRESHOLD * s * s)

shouldAutoLockLimits(d) ==
    IF Len(d) < MIN_DATA_POINTS THEN FALSE
    ELSE IF Bind(Values(d), LAMBDA values : LowVariation(values)) THEN FALSE
    ELSE Len(removeOutliersFromData(d).outlierIndices) > 0

\* hasData = chartData.length >= MINIMUM_XMR_DATA_POINTS; chartData has one
\* entry per moving range
hasData(d) == Len(calculateMovingRanges(d)) >= MINIMUM_XMR_DATA_POINTS

\* The state of a freshly mounted chart
MountedChart(hasTrendLabel, hasSeasonalityLabel) ==
    [labelHasTrend               |-> hasTrendLabel,
     labelHasSeasonality         |-> hasSeasonalityLabel,
     lockedLimits                |-> <<>>,
     isLimitsLocked              |-> FALSE,
     autoLocked                  |-> FALSE,
     autoLockAttempted           |-> FALSE,
     hasEverBeenManuallyModified |-> FALSE,
     outlierIndices              |-> <<>>,
     originalAutoOutliers        |-> <<>>,
     manuallyExcludedIndices     |-> <<>>,
     autoSuggestedLimits         |-> <<>>,
     trendActive                 |-> FALSE,
     seasonalityActive           |-> FALSE,
     autoAppliedTrend            |-> FALSE,
     autoAppliedSeasonality      |-> FALSE,
     dialog                      |-> "none"]

\* the guards of the three effects
AutoTrendGuard(c, d) ==
    /\ c.labelHasTrend
    /\ ~c.autoAppliedTrend
    /\ ~c.trendActive
    /\ Len(d) >= 2
    /\ HasRegressionStats(d)

AutoSeasonalityGuard(c, d) ==
    /\ c.labelHasSeasonality
    /\ ~c.autoAppliedSeasonality
    /\ ~c.seasonalityActive
    /\ Len(d) >= MINIMUM_XMR_DATA_POINTS
    /\ HasSeasonalFactors(d)

AutoLockGuard(c, d) ==
    /\ ~c.autoLockAttempted
    /\ ~c.trendActive
    /\ ~c.seasonalityActive
    /\ ~c.labelHasTrend
    /\ ~c.labelHasSeasonality
    /\ ~c.isLimitsLocked
    /\ Len(d) >= MINIMUM_XMR_DATA_POINTS

\* the state updates each effect queues, applied to the state s
AutoApplyTrend(s) ==
    [s EXCEPT !.trendActive = TRUE, !.autoAppliedTrend = TRUE,
              !.isLimitsLocked = FALSE, !.lockedLimits = <<>>]

AutoApplySeasonality(s) ==
    [s EXCEPT !.seasonalityActive = TRUE, !.autoAppliedSeasonality = TRUE,
              !.isLimitsLocked = FALSE, !.lockedLimits = <<>>]

AutoLock(s, d, up) ==
    IF shouldAutoLockLimits(d)
    THEN LET res == calculateLimitsWithOutlierRemoval(d, up)
         IN  [s EXCEPT !.lockedLimits = <<res.limits>>,
                       !.isLimitsLocked = TRUE,
                       !.autoSuggestedLimits = <<res.limits>>,
                       !.outlierIndices = res.outlierIndices,
                       !.originalAutoOutliers = res.outlierIndices,
                       !.autoLocked = TRUE,
                       !.autoLockAttempted = TRUE]
    ELSE [s EXCEPT !.autoLockAttempted = TRUE]

\* the handlers of the card, as functions of the rendered state s
handleLockLimits(s, lim, isManuallyModified, excludedIndices) ==
    LET locked == [s EXCEPT !.lockedLimits = <<lim>>,
                            !.isLimitsLocked = TRUE,
                            !.autoSuggestedLimits = <<>>]
    IN  IF isManuallyModified
        THEN [locked EXCEPT !.autoLocked = FALSE,
                            !.hasEverBeenManuallyModified = TRUE,
                            !.manuallyExcludedIndices = excludedIndices,
                            !.outlierIndices = <<>>]
        ELSE IF s.hasEverBeenManuallyModified
        THEN [locked EXCEPT !.autoLocked = FALSE,
                            !.manuallyExcludedIndices = excludedIndices]
        ELSE IF s.autoLocked
        THEN [locked EXCEPT !.autoLocked = TRUE,
                            !.manuallyExcludedIndices = <<>>]
        ELSE [locked EXCEPT !.autoLocked = FALSE,
                            !.hasEverBeenManuallyModified = TRUE,
                            !.manuallyExcludedIndices = excludedIndices]

\* An unlock that also forgets the auto-lock attempt
handleUnlockLimitsForgetful(s) ==
    [s EXCEPT !.isLimitsLocked = FALSE, !.lockedLimits = <<>>,
              !.autoSuggestedLimits = <<>>, !.outlierIndices = <<>>,
              !.manuallyExcludedIndices = <<>>, !.autoLocked = FALSE,
              !.autoLockAttempted = FALSE]

handleUnlockLimits(s) ==
    [s EXCEPT !.isLimitsLocked = FALSE, !.lockedLimits = <<>>,
              !.autoSuggestedLimits = <<>>, !.outlierIndices = <<>>,
              !.manuallyExcludedIndices = <<>>, !.autoLocked = FALSE]

handleResetToAutoLock(s, d, up) ==
    LET res == calculateLimitsWithOutlierRemoval(d, up)
    IN  [s EXCEPT !.lockedLimits = <<res.limits>>,
                  !.isLimitsLocked = TRUE,
                  !.autoSuggestedLimits = <<res.limits>>,
                  !.outlierIndices = res.outlierIndices,
                  !.originalAutoOutliers = res.outlierIndices,
                  !.manuallyExcludedIndices = <<>>,
                  !.autoLocked = TRUE,
                  !.hasEverBeenManuallyModified = FALSE,
                  !.autoLockAttempted = TRUE]

handleApplyTrend(s) ==
    [s EXCEPT !.trendActive = TRUE, !.isLimitsLocked = FALSE,
              !.lockedLimits = <<>>, !.autoLocked = FALSE,
              !.autoSuggestedLimits = <<>>]

handleRemoveTrend(s) == [s EXCEPT !.trendActive = FALSE]

handleApplySeasonality(s) ==
    [s EXCEPT !.seasonalityActive = TRUE, !.isLimitsLocked = FALSE,
              !.lockedLimits = <<>>, !.autoLocked = FALSE,
              !.autoSuggestedLimits = <<>>]

handleRemoveSeasonality(s) == [s EXCEPT !.seasonalityActive = FALSE]

\* Series of 1, 5, 6 and 7 points: too short for any effect, too short for
\* the toolbar, with and without a consensus outlier, and constant
ChartSeries ==
    {MkData(v) : v \in {<<3>>, <<1, 2, 1, 2, 1>>, <<1, 1, 1, 1, 1, 2>>,
                        <<0, 1, 1, 1, 1, 1, 2>>, <<1, 2, 1, 2, 1, 2, 1>>,
                        <<2, 2, 2, 2, 2, 2, 2>>}}

\* limits the lock dialog hands over, and the rows it has excluded
DialogLimits == {ComputedLimits, LockedLimits}
DialogExclusions == {<<>>, <<0>>}

InitChart ==
    /\ data \in ChartSeries
    /\ useMedian = FALSE
    /\ limits = ZeroLimits
    /\ trendLimits = <<>>
    /\ op = "none"
    /\ result = NoResult
    /\ \E t, s \in BOOLEAN : chart = MountedChart(t, s)
    /\ dividers = <<>>

\* an effect of the last commit has state updates to make
EffectsPending ==
    \/ AutoTrendGuard(chart, data)
    \/ AutoSeasonalityGuard(chart, data)
    \/ AutoLockGuard(chart, data)

\* The three effects of one commit, in source order.  Each reads the state
\* that was rendered; their queued updates are applied together.
RunEffects ==
    /\ EffectsPending
    /\ \E up \in CleanedHalves(data) :
          LET s1 == IF AutoTrendGuard(chart, data)
                    THEN AutoApplyTrend(chart) ELSE chart
              s2 == IF AutoSeasonalityGuard(chart, data)
                    THEN AutoApplySeasonality(s1) ELSE s1
              s3 == IF AutoLockGuard(chart, data)
                    THEN AutoLock(s2, data, up) ELSE s2
          IN  chart' = s3
    /\ UNCHANGED <<data, useMedian, limits, trendLimits, op, result,
                 dividers>>

\* the toolbar is rendered, no dialog covers it, and the effects have run
Toolbar == hasData(data) /\ chart.dialog = "none" /\ ~EffectsPending

OpenDialog(name) ==
    /\ Toolbar
    /\ chart' = [chart EXCEPT !.dialog = name]
    /\ UNCHANGED <<data, useMedian, limits, trendLimits, op, result,
                 dividers>>

\* the three action buttons with their `disabled` conditions
OpenLockLimitsDialog == ~chart.trendActive /\ OpenDialog("lock")

OpenTrendDialog ==
    ~(chart.isLimitsLocked \/ chart.seasonalityActive) /\ OpenDialog("trend")

OpenSeasonalityDialog == ~chart.trendActive /\ OpenDialog("seasonality")

CloseDialog ==
    /\ chart.dialog # "none"
    /\ chart' = [chart EXCEPT !.dialog = "none"]
    /\ UNCHANGED <<data, useMedian, limits, trendLimits, op, result,
                 dividers>>

\* the outlierIndices prop of the lock dialog, its initial exclusions
DialogOutlierIndices(s) ==
    IF s.hasEverBeenManuallyModified THEN s.manuallyExcludedIndices
    ELSE s.outlierIndices

LockLimits ==
    /\ chart.dialog = "lock"
    /\ \E lim \in DialogLimits, isManuallyModified \in BOOLEAN,
          excluded \in DialogExclusions :
          LET excludedIndices == IF isManuallyModified THEN excluded
                                 ELSE DialogOutlierIndices(chart)
          IN  chart' = [handleLockLimits(chart, lim, isManuallyModified,
                                         excludedIndices)
                           EXCEPT !.dialog = "none"]
    /\ UNCHANGED <<data, useMedian, limits, trendLimits, op, result,
                 dividers>>

\* "Reset to Auto Lock" is offered unless auto-locked or nothing was detected
ResetToAutoLock ==
    /\ chart.dialog = "lock"
    /\ ~chart.autoLocked
    /\ Len(chart.originalAutoOutliers) > 0
    /\ \E up \in CleanedHalves(data) :
          chart' = [handleResetToAutoLock(chart, data, up)
                       EXCEPT !.dialog = "none"]
    /\ UNCHANGED <<data, useMedian, limits, trendLimits, op, result,
                 dividers>>

UnlockLimits ==
    /\ Toolbar
    /\ chart.isLimitsLocked
    /\ chart' = handleUnlockLimits(chart)
    /\ UNCHANGED <<data, useMedian, limits, trendLimits, op, result,
                 dividers>>

ApplyTrend ==
    /\ chart.dialog = "trend"
    /\ HasRegressionStats(data)
    /\ chart' = [handleApplyTrend(chart) EXCEPT !.dialog = "none"]
    /\ UNCHANGED <<data, useMedian, limits, trendLimits, op, result,
                 dividers>>

RemoveTrend ==
    /\ Toolbar
    /\ chart.trendActive
    /\ chart' = handleRemoveTrend(chart)
    /\ UNCHANGED <<data, useMedian, limits, trendLimits, op, result,
                 dividers>>

ApplySeasonality ==
    /\ chart.dialog = "seasonality"
    /\ HasSeasonalFactors(data)
    /\ chart' = [handleApplySeasonality(chart) EXCEPT !.dialog = "none"]
    /\ UNCHANGED <<data, useMedian, limits, trendLimits, op, result,
                 dividers>>

RemoveSeasonality ==
    /\ Toolbar
    /\ chart.seasonalityActive
    /\ chart' = handleRemoveSeasonality(chart)
    /\ UNCHANGED <<data, useMedian, limits, trendLimits, op, result,
                 dividers>>

NextChart ==
    \/ RunEffects
    \/ OpenLockLimitsDialog
    \/ OpenTrendDialog
    \/ OpenSeasonalityDialog
    \/ CloseDialog
    \/ LockLimits
    \/ ResetToAutoLock
    \/ UnlockLimits
    \/ ApplyTrend
    \/ RemoveTrend
    \/ ApplySeasonality
    \/ RemoveSeasonality

SpecChart == InitChart /\ [][NextChart]_vars

----------------------------------------------------------------------------
(* SpecLockDialog: the lock-limits dialog over a mounted chart.  A limit   *)
(* field of the dialog is [typed, text]: an untyped field shows the        *)
(* recalculated value; typed text is <<>> when it holds no number and      *)
(* <<v>> when it holds the number v, in thousandths.  The parsed values    *)
(* are thousandths, the limits handed to onLockLimits are hundredths.      *)

DialogFields == {"avgX", "UNPL", "LNPL", "avgMovement", "URL"}

\* handleExcludeRow: the toggle of one row
handleExcludeRow(excludedIndices, index) ==
    IF index \in SeqToSet(excludedIndices)
    THEN SelectSeq(excludedIndices, LAMBDA i : i # index)
    ELSE Append(excludedIndices, index)

\* dataForCalculation of calculateXMRFromCurrentState
dataForCalculation(d, excludedIndices) ==
    LET filteredDataPoints ==
            SelectPoints(d, 1, SeqToSet(excludedIndices), FALSE)
    IN  IF Len(filteredDataPoints) >= 3 THEN filteredDataPoints ELSE d

\* calculateXMRFromCurrentState().limits
calculateXMRFromCurrentState(d, currentLimits, excludedIndices, median, up) ==
    IF Len(d) = 0 THEN currentLimits
    ELSE calculateXMRLimits(dataForCalculation(d, excludedIndices),
                            median, up)

\* parseFloat(text) || recalculated.  The text of an untyped field is
\* recalculated.toFixed(2), which parses back to the recalculated value.
parseFloatOr(field, recalculated) ==
    IF ~field.typed THEN 10 * recalculated
    ELSE IF field.text = <<>> THEN 10 * recalculated
    ELSE IF field.text[1] = 0 THEN 10 * recalculated
    ELSE field.text[1]

\* A validation that tests the control range before the average
ValidationAlertRangeFirst(parsed) ==
    IF parsed.UNPL <= parsed.LNPL
    THEN "UNPL must be greater than LNPL."
    ELSE IF parsed.avgX < parsed.LNPL \/ parsed.avgX > parsed.UNPL
    THEN "Average X must be between LNPL and UNPL."
    ELSE IF parsed.avgMovement > parsed.URL
    THEN "Average Movement must be <= URL."
    ELSE "none"

\* The alert of the first validation rule that fails, in source order
ValidationAlert(parsed) ==
    IF parsed.avgX < parsed.LNPL \/ parsed.avgX > parsed.UNPL
    THEN "Average X must be between LNPL and UNPL."
    ELSE IF parsed.avgMovement > parsed.URL
    THEN "Average Movement must be <= URL."
    ELSE IF parsed.UNPL <= parsed.LNPL
    THEN "UNPL must be greater than LNPL."
    ELSE "none"

\* the unrounded limits of the onLockLimits call, as fractions
DialogLimitTerms(parsed) ==
    [avgX          |-> <<parsed.avgX, 1000>>,
     UNPL          |-> <<parsed.UNPL, 1000>>,
     LNPL          |-> <<parsed.LNPL, 1000>>,
     avgMovement   |-> <<parsed.avgMovement, 1000>>,
     URL           |-> <<parsed.URL, 1000>>,
     lowerQuartile |-> <<parsed.avgX + parsed.LNPL, 2000>>,
     upperQuartile |-> <<parsed.avgX + parsed.UNPL, 2000>>]

\* the limits whose unrounded value is an exact half of a hundredth
DialogHalves(parsed) ==
    {f \in LimitFields :
        ExactHalf(DialogLimitTerms(parsed)[f][1],
                  DialogLimitTerms(parsed)[f][2])}

\* the first argument of onLockLimits: Math.round(v * 100) / 100 of each
RoundedLimits(parsed, up) ==
    [f \in LimitFields |->
        RoundHundredths(DialogLimitTerms(parsed)[f][1],
                        DialogLimitTerms(parsed)[f][2], f \in up)]

\* What the user can have put into the five fields
Untyped == [typed |-> FALSE, text |-> <<>>]

Typed(texts) == {[typed |-> TRUE, text |-> t] : t \in texts}

DialogEntries ==
    [avgX        : {Untyped} \cup Typed({<<>>, <<0>>, <<1000>>, <<10000>>,
                                         <<20000>>}),
     UNPL        : {Untyped} \cup Typed({<<0>>, <<10000>>, <<15000>>}),
     LNPL        : {Untyped} \cup Typed({<<0>>, <<10000>>, <<15000>>}),
     avgMovement : {Untyped} \cup Typed({<<1004>>, <<5000>>}),
     URL         : {Untyped} \cup Typed({<<0>>, <<3000>>})]

\* charts of 7 points, one of them with a consensus outlier
DialogSeries ==
    {MkData(v) : v \in {<<0, 1, 1, 1, 1, 1, 2>>, <<1, 2, 1, 2, 1, 2, 1>>}}

InitLockDialog ==
    /\ data \in DialogSeries
    /\ useMedian = FALSE
    /\ limits = ZeroLimits
    /\ trendLimits = <<>>
    /\ op = "none"
    /\ result = NoResult
    /\ chart = MountedChart(FALSE, FALSE)
    /\ dividers = <<>>

\* The dialog's handleLockLimits on the "Lock Limits" button, after the
\* user has toggled the median mode, excluded or restored row 0 and typed
\* into the fields.  `result` keeps what was entered, the state the handler
\* ran in, the alert it showed and the arguments of its onLockLimits call.
\* A behaviour is followed up to its first such click.
ValidateAndLockLimits ==
    /\ op = "none"
    /\ chart.dialog = "lock"
    /\ \E median \in BOOLEAN, toggled \in BOOLEAN :
       \E excludedIndices \in
              {IF toggled THEN handleExcludeRow(DialogOutlierIndices(chart), 0)
               ELSE DialogOutlierIndices(chart)} :
       \E calculationData \in {dataForCalculation(data, excludedIndices)} :
       \E upCalc \in SUBSET ExactHalves(calculationData, median) :
       \E recalculatedLimits \in
              {calculateXMRFromCurrentState(data, limits, excludedIndices,
                                            median, upCalc)} :
       \E entries \in DialogEntries :
       \E parsed \in {[f \in DialogFields |->
                          parseFloatOr(entries[f], recalculatedLimits[f])]} :
       \E alert \in {ValidationAlert(parsed)} :
       \E up \in SUBSET DialogHalves(parsed) :
       \E lockedLimits \in {RoundedLimits(parsed, up)} :
          LET hasUserMadeChanges ==
                  chart.hasEverBeenManuallyModified \/ toggled
              isManuallyModified ==
                  hasUserMadeChanges
                      \/ \E f \in DialogFields : entries[f].typed
          IN  /\ op' = "handleLockLimits"
              /\ result' =
                    [entries      |-> entries,
                     recalculated |-> recalculatedLimits,
                     rendered     |-> chart,
                     alert        |-> alert,
                     onLockLimits |->
                         IF alert # "none" THEN <<>>
                         ELSE <<[limits |-> lockedLimits,
                                 isManuallyModified |-> isManuallyModified,
                                 excludedIndices |-> excludedIndices]>>]
              /\ chart' =
                    IF alert # "none" THEN chart
                    ELSE [handleLockLimits(chart, lockedLimits,
                              isManuallyModified, excludedIndices)
                             EXCEPT !.dialog = "none"]
    /\ UNCHANGED <<data, useMedian, limits, trendLimits, dividers>>

NextLockDialog ==
    \/ op = "none" /\ RunEffects
    \/ op = "none" /\ OpenLockLimitsDialog
    \/ op = "none" /\ LockLimits
    \/ op = "none" /\ ResetToAutoLock
    \/ op = "none" /\ CloseDialog
    \/ op = "none" /\ UnlockLimits
    \/ ValidateAndLockLimits

SpecLockDialog == InitLockDialog /\ [][NextLockDialog]_vars

----------------------------------------------------------------------------
(* Dividers and segments.  The timestamp of a point is a day number and    *)
(* new Date(timestamp).getTime() its time in milliseconds.  A DividerLine  *)
(* is [id, x].  An optional argument is <<>> when absent and <<v>> when    *)
(* it is v; `status` is the optional lockedLimitStatus.                    *)

MS_PER_DAY == 86400000

\* new Date(timestamp).getTime()
getTime(timestamp) == MS_PER_DAY * timestamp

\* Math.min(...xs) and Math.max(...xs) of a non-empty list
MathMin(xs) == CHOOSE x \in SeqToSet(xs) : \A y \in SeqToSet(xs) : x <= y

MathMax(xs) == CHOOSE x \in SeqToSet(xs) : \A y \in SeqToSet(xs) : x >= y

\* LockedLimitStatus
UNLOCKED == 0
LOCKED == 1
UNPL_MODIFIED == 2
LNPL_MODIFIED == 4
AVGX_MODIFIED == 8

\* (status & flag) === flag, for a flag of one bit
HasFlag(status, flag) == (status \div flag) % 2 = 1

isAvgXModified(status) == HasFlag(status, AVGX_MODIFIED)

isUnplModified(status) == HasFlag(status, UNPL_MODIFIED)

isLnplModified(status) == HasFlag(status, LNPL_MODIFIED)

\* `divider-${n}`
DividerId(n) ==
    CASE n = 1 -> "divider-1"
      [] n = 2 -> "divider-2"
      [] n = 3 -> "divider-3"
      [] OTHER -> "divider-4"

isShadowDivider(divider) ==
    \/ divider.id = "divider-start"
    \/ divider.id = "divider-end"
    \/ divider.id = ""

\* [...dividers].sort((a, b) => a.x - b.x); the sort is stable
sortDividers(ds) ==
    Bind(ds, LAMBDA a :
        [k \in 1..Len(a) |->
            a[CHOOSE i \in 1..Len(a) :
                Cardinality({j \in 1..Len(a) :
                    \/ a[j].x < a[i].x
                    \/ a[j].x = a[i].x /\ j < i}) = k - 1]])

\* data.map((d) => ({ timestamp: d.timestamp, value: d.value }))
AsDataPoints(points) ==
    [i \in 1..Len(points) |->
        [timestamp |-> points[i].timestamp, value |-> points[i].value]]

\* the points of segment i (1-based) between sorted dividers i and i + 1
SegmentData(points, sorted, i) ==
    SelectSeq(points, LAMBDA point :
        /\ getTime(point.timestamp) >= sorted[i].x
        /\ getTime(point.timestamp) <= sorted[i + 1].x)

\* The ties of the limit calculation, as pairs <<segment, field>>
SegmentHalves(points, ds, median) ==
    Bind(sortDividers(ds), LAMBDA sorted :
        IF Len(sorted) < 2
        THEN {<<1, f>> : f \in ExactHalves(AsDataPoints(points), median)}
        ELSE UNION {{<<i, f>> : f \in ExactHalves(
                        AsDataPoints(SegmentData(points, sorted, i)), median)} :
                    i \in 1..(Len(sorted) - 1)})

\* the loop of calculateSegmentStats from segment i on
RECURSIVE SegmentsFrom(_, _, _, _, _)
SegmentsFrom(points, sorted, median, up, i) ==
    IF i > Len(sorted) - 1 THEN <<>>
    ELSE Bind(SegmentData(points, sorted, i), LAMBDA segmentData :
            (IF Len(segmentData) = 0 THEN <<>>
             ELSE <<[xLeft      |-> sorted[i].x,
                     xRight     |-> sorted[i + 1].x,
                     limits     |-> calculateXMRLimits(
                                        AsDataPoints(segmentData), median,
                                        {f \in LimitFields : <<i, f>> \in up}),
                     dataPoints |-> segmentData]>>)
            \o SegmentsFrom(points, sorted, median, up, i + 1))

\* calculateSegmentStats; up is the set of <<segment, field>> whose exact
\* halves round upward
calculateSegmentStats(points, ds, median, up) ==
    IF Len(points) = 0 THEN <<>>
    ELSE Bind(sortDividers(ds), LAMBDA sortedDividers :
            IF Len(sortedDividers) < 2
            THEN <<[xLeft      |-> getTime(points[1].timestamp),
                    xRight     |-> getTime(points[Len(points)].timestamp),
                    limits     |-> calculateXMRLimits(AsDataPoints(points),
                                       median,
                                       {f \in LimitFields : <<1, f>> \in up}),
                    dataPoints |-> points]>>
            ELSE SegmentsFrom(points, sortedDividers, median, up, 1))

ViolationRules ==
    {"outsideLimits", "runningPoints", "fourNearLimit",
     "twoOfThreeBeyondTwoSigma", "fifteenWithinOneSigma"}

NoViolations == [rule \in ViolationRules |-> <<>>]

\* data.findIndex(d => d.timestamp === point.timestamp &&
\*                     Math.abs(d.value - point.value) < 0.001)
findIndex(points, point) ==
    LET found == {i \in 1..Len(points) :
                    /\ points[i].timestamp = point.timestamp
                    /\ 1000 * Abs(points[i].value - point.value) < 1}
    IN  IF found = {} THEN -1
        ELSE (CHOOSE i \in found : \A j \in found : i <= j) - 1

\* lockedLimits && lockedLimitStatus === LockedLimitStatus.LOCKED
UsesLockedLimits(lockedLimits, status) ==
    /\ lockedLimits # <<>>
    /\ status = <<LOCKED>>

\* A detector that hands the overlays to every segment
SegmentViolationsOverlaid(segment, segmentIndex, lockedLimits, tl, status) ==
    IF UsesLockedLimits(lockedLimits, status)
    THEN detectViolations(segment.dataPoints, lockedLimits[1], <<>>)
    ELSE detectViolations(segment.dataPoints, segment.limits, tl)

\* segmentViolations of the segment at the 0-based segmentIndex
SegmentViolations(segment, segmentIndex, lockedLimits, tl, status) ==
    IF segmentIndex = 0 /\ UsesLockedLimits(lockedLimits, status)
    THEN detectViolations(segment.dataPoints, lockedLimits[1], <<>>)
    ELSE IF segmentIndex = 0 THEN
        detectViolations(segment.dataPoints, segment.limits, tl)
    ELSE detectViolations(segment.dataPoints, segment.limits, <<>>)

\* the global indices one segment pushes for one rule, in push order
RECURSIVE MappedFrom(_, _, _, _)
MappedFrom(points, segmentData, violations, localIndex) ==
    IF localIndex >= Len(segmentData) THEN <<>>
    ELSE LET globalIndex == findIndex(points, segmentData[localIndex + 1])
         IN  (IF globalIndex # -1 /\ localIndex \in SeqToSet(violations)
              THEN <<globalIndex>> ELSE <<>>)
             \o MappedFrom(points, segmentData, violations, localIndex + 1)

\* segments.forEach(...) from the 0-based segmentIndex on
RECURSIVE AllViolationsFrom(_, _, _, _, _, _)
AllViolationsFrom(points, segments, lockedLimits, tl, status, segmentIndex) ==
    IF segmentIndex >= Len(segments) THEN NoViolations
    ELSE Bind(SegmentViolations(segments[segmentIndex + 1], segmentIndex,
                                lockedLimits, tl, status),
          LAMBDA segmentViolations :
            Bind(AllViolationsFrom(points, segments, lockedLimits, tl,
                                   status, segmentIndex + 1),
              LAMBDA rest :
                [rule \in ViolationRules |->
                    MappedFrom(points, segments[segmentIndex + 1].dataPoints,
                               segmentViolations[rule], 0) \o rest[rule]]))

detectViolationsWithSegments(points, segments, lockedLimits, tl, status) ==
    IF Len(points) = 0 \/ Len(segments) = 0 THEN NoViolations
    ELSE AllViolationsFrom(points, segments, lockedLimits, tl, status, 0)

createBoundaryDividers(d) ==
    IF Len(d) = 0 THEN <<>>
    ELSE LET timestamps == [i \in 1..Len(d) |-> getTime(d[i].timestamp)]
         IN  <<[id |-> "divider-start", x |-> MathMin(timestamps)],
               [id |-> "divider-end", x |-> MathMax(timestamps)]>>

\* addDivider for a list that holds a boundary divider.  The default
\* position minX + range * (n + 1) / 4 is a whole number of milliseconds
\* here.
addDivider(existingDividers, position) ==
    LET realDividers ==
            SelectSeq(existingDividers, LAMBDA dv : ~isShadowDivider(dv))
        boundaries ==
            SelectSeq(existingDividers, LAMBDA dv : isShadowDivider(dv))
        xs == [i \in 1..Len(boundaries) |-> boundaries[i].x]
        minX == MathMin(xs)
        maxX == MathMax(xs)
        xPosition ==
            IF position # <<>> THEN position[1]
            ELSE minX + ((maxX - minX) * (Len(realDividers) + 1)) \div 4
    IN  IF Len(realDividers) >= 3 THEN existingDividers
        ELSE Append(existingDividers,
                    [id |-> DividerId(Len(realDividers) + 1),
                     x  |-> xPosition])

removeDivider(ds) ==
    LET realDividers == SelectSeq(ds, LAMBDA dv : ~isShadowDivider(dv))
    IN  IF Len(realDividers) = 0 THEN ds
        ELSE SelectSeq(ds, LAMBDA dv : dv.id # DividerId(Len(realDividers)))

updateDividerPosition(ds, dividerId, newX) ==
    [i \in 1..Len(ds) |->
        IF ds[i].id = dividerId THEN [ds[i] EXCEPT !.x = newX] ELSE ds[i]]

----------------------------------------------------------------------------
(* SpecSegments: dividers are created for a series, then added, removed    *)
(* and moved; the segment functions are applied to the moving-range points *)
(* of the series and the dividers reached.                                 *)

\* Series of 9 and of 8 daily points: the quarter positions of the first
\* fall on observations, those of the second between observations.
SegmentSeries ==
    {MkData(v) : v \in {<<4, 5, 4, 4, 5, 4, 4, 4, 9>>,
                        <<4, 5, 4, 4, 5, 4, 4, 9>>}}

\* Locked limits narrower than the limits of any segment
SegmentLockedLimits ==
    [avgX |-> 400, avgMovement |-> 19, UNPL |-> 450, LNPL |-> 350,
     URL |-> 61, lowerQuartile |-> 375, upperQuartile |-> 425]

\* positions handed to addDivider and to updateDividerPosition: none (the
\* default quarter position), between two observations, on an observation
AddPositions == {<<>>, <<getTime(13) \div 2>>}

UpdatePositions == {getTime(6)}

\* the statuses handed to the detector: absent, or any combination of flags
Statuses == {<<>>} \cup {<<status>> : status \in 0..15}

InitSegments ==
    /\ data \in SegmentSeries
    /\ useMedian = FALSE
    /\ limits = ZeroLimits
    /\ trendLimits = <<>>
    /\ op = "none"
    /\ result = NoResult
    /\ chart = NoChart
    /\ dividers = createBoundaryDividers(data)

AddDivider ==
    /\ op = "none"
    /\ \E position \in AddPositions :
          dividers' = addDivider(dividers, position)
    /\ UNCHANGED <<data, useMedian, limits, trendLimits, op, result, chart>>

RemoveDivider ==
    /\ op = "none"
    /\ dividers' = removeDivider(dividers)
    /\ UNCHANGED <<data, useMedian, limits, trendLimits, op, result, chart>>

UpdateDividerPosition ==
    /\ op = "none"
    /\ \E i \in 1..Len(dividers), newX \in UpdatePositions :
          dividers' = updateDividerPosition(dividers, dividers[i].id, newX)
    /\ UNCHANGED <<data, useMedian, limits, trendLimits, op, result, chart>>

CalculateSegmentStats ==
    /\ op = "none"
    /\ \E median \in BOOLEAN :
       \E points \in {calculateMovingRanges(data)} :
       \E up \in SUBSET SegmentHalves(points, dividers, median) :
          /\ op' = "calculateSegmentStats"
          /\ result' = [points   |-> points,
                        segments |-> calculateSegmentStats(points, dividers,
                                                           median, up)]
    /\ UNCHANGED <<data, useMedian, limits, trendLimits, chart, dividers>>

\* detectViolationsWithSegments on the segments of calculateSegmentStats,
\* with and without locked limits, a trend and a status
DetectViolationsWithSegments ==
    /\ op = "none"
    /\ \E points \in {calculateMovingRanges(data)} :
       \E up \in SUBSET SegmentHalves(points, dividers, FALSE) :
       \E segments \in {calculateSegmentStats(points, dividers, FALSE, up)} :
       \E lockedLimits \in {<<>>, <<SegmentLockedLimits>>},
          tl \in {<<>>, <<createTrendLines(RisingTrend, points, {})>>},
          status \in Statuses :
          /\ op' = "detectViolationsWithSegments"
          /\ result' = [points            |-> points,
                        segments          |-> segments,
                        lockedLimits      |-> lockedLimits,
                        trendLimits       |-> tl,
                        lockedLimitStatus |-> status,
                        violations        |->
                            detectViolationsWithSegments(points, segments,
                                lockedLimits, tl, status)]
    /\ UNCHANGED <<data, useMedian, limits, trendLimits, chart, dividers>>

NextSegments ==
    \/ AddDivider
    \/ RemoveDivider
    \/ UpdateDividerPosition
    \/ CalculateSegmentStats
    \/ DetectViolationsWithSegments

SpecSegments == InitSegments /\ [][NextSegments]_vars

----------------------------------------------------------------------------
(* Linear regression.  The slope and the intercept are exact fractions     *)
(* <<numerator, denominator>>; null is <<>>.                               *)

MaxRegLen == 5

\* the sums calculateLinearRegression accumulates over x = first .. and
\* y = value, and its numerator and denominator
RegressionSums(d, first) ==
    LET n     == Len(d)
        x(i)  == first + i - 1
        sumX  == SeqSum([i \in 1..n |-> x(i)])
        sumY  == SeqSum(Values(d))
        sumXY == SeqSum([i \in 1..n |-> x(i) * d[i].value])
        sumX2 == SeqSum([i \in 1..n |-> x(i) * x(i)])
    IN  [n           |-> n,
         sumX        |-> sumX,
         sumY        |-> sumY,
         numerator   |-> n * sumXY - sumX * sumY,
         denominator |-> n * sumX2 - sumX * sumX]

\* m = numerator / denominator and c = (sumY - m * sumX) / n
RegressionOf(s) ==
    IF s.denominator = 0 THEN <<>>
    ELSE <<[m |-> <<s.numerator, s.denominator>>,
            c |-> <<s.sumY * s.denominator - s.numerator * s.sumX,
                    s.n * s.denominator>>]>>

\* A regression over the 1-based positions of the points
calculateLinearRegressionOneBased(d) ==
    IF Len(d) < 2 THEN <<>>
    ELSE Bind(RegressionSums(d, 1), RegressionOf)

\* calculateLinearRegression: x is the 0-based index of the point
calculateLinearRegression(d) ==
    IF Len(d) < 2 THEN <<>>
    ELSE Bind(RegressionSums(d, 0), RegressionOf)

\* the fraction q is a whole number of hundredths, and that number
IsHundredths(q) == (100 * q[1]) % q[2] = 0
InHundredths(q) == (100 * q[1]) \div q[2]

\* calculateRegressionStats for a series whose slope and intercept are
\* whole hundredths; m, c and avgMR come out in hundredths.  (avgMR is
\* replaced by limits.avgMovement wherever the chart uses these stats.)
calculateRegressionStats(d) ==
    Bind(calculateLinearRegression(d), LAMBDA regressionResult :
        IF regressionResult = <<>> THEN <<>>
        ELSE <<[m |-> InHundredths(regressionResult[1].m),
                c |-> InHundredths(regressionResult[1].c)]>>)

RegressionVals == {5, 8, 11, 14, 17}
RegressionInputs == {MkData(v) : v \in SeqsUpTo(RegressionVals, MaxRegLen)}

InitRegression ==
    /\ data \in RegressionInputs
    /\ useMedian = FALSE
    /\ limits = ZeroLimits
    /\ trendLimits = <<>>
    /\ op = "none"
    /\ result = NoResult
    /\ chart = NoChart
    /\ dividers = <<>>

CalculateLinearRegression ==
    /\ op = "none"
    /\ op' = "calculateLinearRegression"
    /\ result' = [data |-> data, regression |-> calculateLinearRegression(data)]
    /\ UNCHANGED <<data, useMedian, limits, trendLimits, chart, dividers>>

NextRegression == CalculateLinearRegression

SpecRegression == InitRegression /\ [][NextRegression]_vars

----------------------------------------------------------------------------
(* SpecTrendOverlay: the trend overlay of submetric-card.tsx.  `chart`     *)
(* holds the useState cells of the trend, `result` what the render that    *)
(* follows every state change derives from them (the useMemo chain         *)
(* processedDataPoints, baseXmrData, trendLines, xmrData).  Seasonality is *)
(* off, so processedDataPoints is rawDataPoints.  Gradients, intercepts    *)
(* and limits are hundredths.                                              *)

MaxTrendLen == 5

\* generateXMRData(data)
generateXMRData(d, up) ==
    Bind(calculateMovingRanges(d), LAMBDA ranges :
    Bind(calculateXMRLimits(d, FALSE, up), LAMBDA lim :
        [dataPoints |-> ranges,
         limits     |-> lim,
         violations |-> detectViolations(ranges, lim, <<>>)]))

\* the trendLines memo
trendLines(s, processedDataPoints, baseXmrData) ==
    IF ~s.trendActive \/ Len(processedDataPoints) < 2 THEN <<>>
    ELSE IF s.storedTrendLines # <<>> THEN s.storedTrendLines
    ELSE <<createTrendLines([m     |-> s.trendGradient,
                             c     |-> s.trendIntercept,
                             avgMR |-> baseXmrData.limits.avgMovement],
                            processedDataPoints, {})>>

\* the xmrData memo
xmrData(s, baseXmrData, tl) ==
    IF s.trendActive /\ tl # <<>>
    THEN [baseXmrData EXCEPT
             !.violations = detectViolations(baseXmrData.dataPoints,
                                             baseXmrData.limits, tl)]
    ELSE IF s.isLimitsLocked /\ s.lockedLimits # <<>>
    THEN [baseXmrData EXCEPT
             !.limits = s.lockedLimits[1],
             !.violations = detectViolations(baseXmrData.dataPoints,
                                             s.lockedLimits[1], <<>>)]
    ELSE baseXmrData

\* what a render derives from the state s
Render(s, d, up) ==
    Bind(generateXMRData(d, up), LAMBDA baseXmrData :
    Bind(trendLines(s, d, baseXmrData), LAMBDA tl :
        [processedDataPoints |-> d,
         trendLines          |-> tl,
         xmrData             |-> xmrData(s, baseXmrData, tl)]))

\* the state of a card that has just been mounted
MountedTrend(hasTrendLabel) ==
    [labelHasTrend    |-> hasTrendLabel,
     autoAppliedTrend |-> FALSE,
     trendActive      |-> FALSE,
     trendGradient    |-> 0,
     trendIntercept   |-> 0,
     storedTrendLines |-> <<>>,
     isLimitsLocked   |-> FALSE,
     lockedLimits     |-> <<>>]

\* the auto-apply effect for non-null stats
autoApplyTrend(s, d, stats, up) ==
    [s EXCEPT !.trendGradient = stats.m,
              !.trendIntercept = stats.c,
              !.storedTrendLines =
                  <<createTrendLines(
                        [m     |-> stats.m,
                         c     |-> stats.c,
                         avgMR |-> generateXMRData(d, up).limits.avgMovement],
                        d, {})>>,
              !.trendActive = TRUE,
              !.autoAppliedTrend = TRUE,
              !.isLimitsLocked = FALSE,
              !.lockedLimits = <<>>]

\* handleApplyTrend(gradient, intercept)
applyTrend(s, gradient, intercept) ==
    [s EXCEPT !.trendGradient = gradient,
              !.trendIntercept = intercept,
              !.trendActive = TRUE,
              !.storedTrendLines = <<>>,
              !.isLimitsLocked = FALSE,
              !.lockedLimits = <<>>]

\* handleRemoveTrend()
removeTrend(s) ==
    [s EXCEPT !.trendActive = FALSE,
              !.trendGradient = 0,
              !.trendIntercept = 0,
              !.storedTrendLines = <<>>]

\* Series whose regression is null or has a slope and an intercept of whole
\* hundredths, and the nine observations of the line 5 + 3 i
TrendVals == {1, 3}
LineSeries == MkData([i \in 1..9 |-> 5 + 3 * (i - 1)])

TrendSeries ==
    {d \in {MkData(v) : v \in SeqsUpTo(TrendVals, MaxTrendLen)} :
        /\ Len(d) >= 1
        /\ LET r == calculateLinearRegression(d)
           IN  r # <<>> => IsHundredths(r[1].m) /\ IsHundredths(r[1].c)}
    \cup {LineSeries}

\* gradients and intercepts the trend dialog hands over
Gradients == {0, 300}
Intercepts == {200, 500}

InitTrendOverlay ==
    /\ data \in TrendSeries
    /\ useMedian = FALSE
    /\ limits = ZeroLimits
    /\ trendLimits = <<>>
    /\ op = "mount"
    /\ \E hasTrendLabel \in BOOLEAN :
       \E up \in SUBSET ExactHalves(data, FALSE) :
          /\ chart = MountedTrend(hasTrendLabel)
          /\ result = Render(chart, data, up)
    /\ dividers = <<>>

AutoApplyTrendLines ==
    /\ chart.labelHasTrend
    /\ ~chart.autoAppliedTrend
    /\ ~chart.trendActive
    /\ Len(data) >= 2
    /\ \E stats \in {calculateRegressionStats(data)} :
       \E up \in SUBSET ExactHalves(data, FALSE) :
          /\ stats # <<>>
          /\ chart' = autoApplyTrend(chart, data, stats[1], up)
          /\ result' = Render(chart', data, up)
    /\ op' = "autoApplyTrend"
    /\ UNCHANGED <<data, useMedian, limits, trendLimits, dividers>>

HandleApplyTrend ==
    /\ ~chart.labelHasTrend \/ chart.autoAppliedTrend
    /\ HasRegressionStats(data)
    /\ \E gradient \in Gradients, intercept \in Intercepts :
       \E up \in SUBSET ExactHalves(data, FALSE) :
          /\ chart' = applyTrend(chart, gradient, intercept)
          /\ result' = Render(chart', data, up)
    /\ op' = "handleApplyTrend"
    /\ UNCHANGED <<data, useMedian, limits, trendLimits, dividers>>

HandleRemoveTrend ==
    /\ chart.trendActive
    /\ \E up \in SUBSET ExactHalves(data, FALSE) :
          /\ chart' = removeTrend(chart)
          /\ result' = Render(chart', data, up)
    /\ op' = "handleRemoveTrend"
    /\ UNCHANGED <<data, useMedian, limits, trendLimits, dividers>>

NextTrendOverlay ==
    \/ AutoApplyTrendLines
    \/ HandleApplyTrend
    \/ HandleRemoveTrend

SpecTrendOverlay == InitTrendOverlay /\ [][NextTrendOverlay]_vars

----------------------------------------------------------------------------
(* Quartile display of locked limits                                       *)

\* Math.abs(unpl + lnpl - 2 * avg) < 0.001, the limits being hundredths
isSymmetric(avg, unpl, lnpl) == 10 * Abs(unpl + lnpl - 2 * avg) < 1

BothQuartiles == [useUpperQuartile |-> TRUE, useLowerQuartile |-> TRUE]
NoQuartile == [useUpperQuartile |-> FALSE, useLowerQuartile |-> FALSE]

\* A display rule that tests the symmetry before any modification flag
shouldUseQuartileSymmetryFirst(status, lim) ==
    IF isSymmetric(lim.avgX, lim.UNPL, lim.LNPL) THEN BothQuartiles
    ELSE IF status \div 2 = 0 THEN BothQuartiles
    ELSE IF (isLnplModified(status) /\ isUnplModified(status))
            \/ isAvgXModified(status)
    THEN NoQuartile
    ELSE IF isUnplModified(status)
    THEN [useUpperQuartile |-> FALSE, useLowerQuartile |-> TRUE]
    ELSE [useUpperQuartile |-> TRUE, useLowerQuartile |-> FALSE]

\* shouldUseQuartile; (status & ~1) === 0 says that no bit above LOCKED is
\* set
shouldUseQuartile(status, lim) ==
    IF status \div 2 = 0 THEN BothQuartiles
    ELSE IF (isLnplModified(status) /\ isUnplModified(status))
            \/ isAvgXModified(status)
    THEN IF isSymmetric(lim.avgX, lim.UNPL, lim.LNPL)
         THEN BothQuartiles
         ELSE NoQuartile
    ELSE IF isUnplModified(status)
    THEN [useUpperQuartile |-> FALSE, useLowerQuartile |-> TRUE]
    ELSE IF isLnplModified(status)
    THEN [useUpperQuartile |-> TRUE, useLowerQuartile |-> FALSE]
    ELSE BothQuartiles

\* limits around the average 4.50, symmetric and not, and every status
QuartileLimits ==
    {[LockedLimits EXCEPT !.avgX = a, !.UNPL = u, !.LNPL = l] :
        a \in {449, 450, 500}, u \in {550, 551, 600}, l \in {300, 349, 350}}

LockStatuses == 0..15

InitQuartile ==
    /\ data = <<>>
    /\ useMedian = FALSE
    /\ limits \in QuartileLimits
    /\ trendLimits = <<>>
    /\ op = "none"
    /\ result = NoResult
    /\ chart = NoChart
    /\ dividers = <<>>

ShouldUseQuartile ==
    /\ op = "none"
    /\ op' = "shouldUseQuartile"
    /\ \E status \in LockStatuses :
          result' = [status |-> status,
                     limits |-> limits,
                     use    |-> shouldUseQuartile(status, limits)]
    /\ UNCHANGED <<data, useMedian, limits, trendLimits, chart, dividers>>

NextQuartile == ShouldUseQuartile

SpecQuartile == InitQuartile /\ [][NextQuartile]_vars

----------------------------------------------------------------------------
(* The auto-lock decision applied to bounded inputs                        *)

MinAutoLockLen == 5
MaxAutoLockLen == 7

\* series around the minimum point count, of equal points and of points
\* 5% and 20% above them
AutoLockVals == {20, 21, 24}

AutoLockInputs ==
    {MkData(v) : v \in {s \in SeqsUpTo(AutoLockVals, MaxAutoLockLen) :
                           Len(s) >= MinAutoLockLen}}

InitAutoLock ==
    /\ data \in AutoLockInputs
    /\ useMedian = FALSE
    /\ limits = ZeroLimits
    /\ trendLimits = <<>>
    /\ op = "none"
    /\ result = NoResult
    /\ chart = NoChart
    /\ dividers = <<>>

ShouldAutoLockLimits ==
    /\ op = "none"
    /\ op' = "shouldAutoLockLimits"
    /\ result' = [data     |-> data,
                  autoLock |-> shouldAutoLockLimits(data),
                  outliers |-> removeOutliersFromData(data).outlierIndices]
    /\ UNCHANGED <<data, useMedian, limits, trendLimits, chart, dividers>>

NextAutoLock == ShouldAutoLockLimits

SpecAutoLock == InitAutoLock /\ [][NextAutoLock]_vars

----------------------------------------------------------------------------
(* Seasonality periods.  The timestamps of these series are whole days, so *)
(* Math.ceil(diffTime / (1000 * 60 * 60 * 24)) is the difference of the    *)
(* day numbers.                                                            *)

MaxGaps == 3

\* deltas of determinePeriodicity, in days
Deltas(d) ==
    [i \in 1..(Len(d) - 1) |-> Abs(d[i + 1].timestamp - d[i].timestamp)]

\* diffCounts[diff]
DiffCount(deltas, diff) ==
    Cardinality({i \in 1..Len(deltas) : deltas[i] = diff})

\* Object.keys(diffCounts).reduce((a, b) => count[a] > count[b] ? a : b):
\* the keys are integers, so they come in ascending order
RECURSIVE ReduceKeys(_, _, _)
ReduceKeys(deltas, keys, a) ==
    IF keys = <<>> THEN a
    ELSE ReduceKeys(deltas, Tail(keys),
                    IF DiffCount(deltas, a) > DiffCount(deltas, Head(keys))
                    THEN a ELSE Head(keys))

mostCommonDiff(deltas) ==
    LET keys == SetToAscSeq(SeqToSet(deltas))
    IN  ReduceKeys(deltas, Tail(keys), Head(keys))

determinePeriodicity(d) ==
    IF Len(d) < 2 THEN "year"
    ELSE Bind(mostCommonDiff(Deltas(d)), LAMBDA interval :
            IF interval < 28 THEN "week"
            ELSE IF interval < 90 THEN "month"
            ELSE IF interval < 365 THEN "quarter"
            ELSE "year")

SeasonalityPeriods == {"year", "quarter", "month", "week"}

\* getPeriodDisableMap
getPeriodDisableMap(d) ==
    Bind(determinePeriodicity(d), LAMBDA interval :
        [p \in SeasonalityPeriods |->
            CASE interval = "quarter" -> p \in {"quarter", "month", "week"}
              [] interval = "month"   -> p \in {"month", "week"}
              [] interval = "week"    -> p = "week"
              [] OTHER                -> FALSE])

\* series of whole-day timestamps a day, a week, a month, a quarter or a
\* year apart
Gaps == {1, 7, 30, 91, 365}

\* the series that starts on day 1 and advances by the given gaps
SeriesOfGaps(gaps) ==
    [i \in 1..(Len(gaps) + 1) |->
        [timestamp |-> 1 + SeqSum(SubSeq(gaps, 1, i - 1)), value |-> i]]

PeriodSeries == {SeriesOfGaps(g) : g \in SeqsUpTo(Gaps, MaxGaps)}

InitPeriods ==
    /\ data \in PeriodSeries
    /\ useMedian = FALSE
    /\ limits = ZeroLimits
    /\ trendLimits = <<>>
    /\ op = "none"
    /\ result = NoResult
    /\ chart = NoChart
    /\ dividers = <<>>

GetPeriodDisableMap ==
    /\ op = "none"
    /\ op' = "getPeriodDisableMap"
    /\ result' = [data |-> data, disableMap |-> getPeriodDisableMap(data)]
    /\ UNCHANGED <<data, useMedian, limits, trendLimits, chart, dividers>>

NextPeriods == GetPeriodDisableMap

SpecPeriods == InitPeriods /\ [][NextPeriods]_vars

----------------------------------------------------------------------------
(* Seasonal factors for the period "week" without grouping.  A timestamp   *)
(* t is the t-th day of a year whose 1 January is a Monday, so day 7 is    *)
(* the first Sunday.  Factors are ten-thousandths, deseasonalised values   *)
(* hundredths.                                                             *)

MaxSeasonLen == 9

\* Math.round(x * 10000) for the exact fraction x = p / q, p >= 0, q > 0;
\* `up` chooses the side of an exact half
RoundTenThousandths(p, q, up) ==
    LET t == 10000 * (p % q)
        w == 10000 * Floor(p, q) + Floor(t, q)
        r == t % q
    IN  IF 2 * r > q \/ (2 * r = q /\ up) THEN w + 1 ELSE w

\* date.getDay(): 0 is Sunday
getDay(t) == t % 7

\* Math.ceil(((date - onejan) / 86400000 + onejan.getDay() + 1) / 7)
weekNum(t) == ((t - 1) + 1 + 1 + 6) \div 7

\* groupedData.get(periodKey), as the points of the week in the order of
\* their day of the week; a later point of the same day replaces an earlier
PeriodArray(d, week) ==
    LET inWeek == {i \in 1..Len(d) : weekNum(d[i].timestamp) = week}
        sortedIndices == SetToAscSeq({getDay(d[i].timestamp) : i \in inWeek})
        last(day) ==
            CHOOSE i \in inWeek :
                /\ getDay(d[i].timestamp) = day
                /\ \A j \in inWeek : getDay(d[j].timestamp) = day => j <= i
    IN  [k \in 1..Len(sortedIndices) |-> d[last(sortedIndices[k])]]

\* periodiseData(data, "week")
periodiseData(d) ==
    IF Len(d) = 0 THEN <<>>
    ELSE LET sortedPeriods ==
                 SetToAscSeq({weekNum(d[i].timestamp) : i \in 1..Len(d)})
         IN  [j \in 1..Len(sortedPeriods) |-> PeriodArray(d, sortedPeriods[j])]

\* subPeriodAggregates[i] / overallAvg for each position i of a period, as
\* exact fractions; the overall average is not zero
FactorTerms(d) ==
    Bind(periodiseData(d), LAMBDA periodisedData :
        LET subPeriodCount ==
                MathMax([j \in 1..Len(periodisedData) |->
                            Len(periodisedData[j])])
            valid(i) ==
                {j \in 1..Len(periodisedData) : Len(periodisedData[j]) >= i}
            sum(i) ==
                SeqSum([k \in 1..Len(SetToAscSeq(valid(i))) |->
                    periodisedData[SetToAscSeq(valid(i))[k]][i].value])
        IN  [i \in 1..subPeriodCount |->
                <<sum(i) * Len(d), Cardinality(valid(i)) * SeqSum(Values(d))>>])

\* the positions whose factor lies exactly halfway between two roundings
FactorHalves(d) ==
    IF Len(d) = 0 \/ SeqSum(Values(d)) = 0 THEN {}
    ELSE Bind(FactorTerms(d), LAMBDA t :
            {i \in 1..Len(t) :
                2 * ((10000 * (t[i][1] % t[i][2])) % t[i][2]) = t[i][2]})

\* calculateSeasonalFactors(data, "week", "none").factors
calculateSeasonalFactors(d, up) ==
    IF Len(d) = 0 THEN <<>>
    ELSE IF SeqSum(Values(d)) = 0
    THEN Bind(periodiseData(d), LAMBDA periodisedData :
            [i \in 1..MathMax([j \in 1..Len(periodisedData) |->
                                  Len(periodisedData[j])]) |-> 10000])
    ELSE Bind(FactorTerms(d), LAMBDA t :
            [i \in 1..Len(t) |->
                RoundTenThousandths(t[i][1], t[i][2], i \in up)])

\* dateSfMap[point.timestamp] of applySeasonalFactors: <<>> when undefined
dateSfMap(d, seasonalFactors, timestamp) ==
    Bind(periodiseData(d), LAMBDA periodisedData :
        LET cells == {<<j, i>> \in (1..Len(periodisedData)) \X (1..Len(d)) :
                         /\ i <= Len(periodisedData[j])
                         /\ i <= Len(seasonalFactors)
                         /\ periodisedData[j][i].timestamp = timestamp}
        IN  IF cells = {} THEN <<>>
            ELSE <<seasonalFactors[(CHOOSE c \in cells : TRUE)[2]]>>)

\* dateSfMap[point.timestamp] for each point of the series
MatchedFactors(d, seasonalFactors) ==
    [k \in 1..Len(d) |-> dateSfMap(d, seasonalFactors, d[k].timestamp)]

\* the points whose deseasonalised value is an exact half of a hundredth
DeseasonHalves(d, seasonalFactors) ==
    Bind(MatchedFactors(d, seasonalFactors), LAMBDA matched :
        {k \in 1..Len(d) :
            /\ matched[k] # <<>>
            /\ matched[k][1] # 0
            /\ ExactHalf(10000 * d[k].value, matched[k][1])})

\* A deseasonalisation that cuts the quotient off after two decimals
applySeasonalFactorsTruncating(d, seasonalFactors, up) ==
    Bind(MatchedFactors(d, seasonalFactors), LAMBDA matched :
        [k \in 1..Len(d) |->
            IF matched[k] # <<>> /\ matched[k][1] # 0
            THEN [timestamp |-> d[k].timestamp,
                  value     |-> Floor(1000000 * d[k].value, matched[k][1])]
            ELSE [d[k] EXCEPT !.value = 100 * d[k].value]])

\* applySeasonalFactors(data, seasonalFactors, "week", "none") for factors
\* that are not negative
applySeasonalFactors(d, seasonalFactors, up) ==
    IF Len(d) = 0 \/ Len(seasonalFactors) = 0
    THEN [k \in 1..Len(d) |-> [d[k] EXCEPT !.value = 100 * d[k].value]]
    ELSE Bind(MatchedFactors(d, seasonalFactors), LAMBDA matched :
            [k \in 1..Len(d) |->
                IF matched[k] # <<>> /\ matched[k][1] # 0
                THEN [timestamp |-> d[k].timestamp,
                      value     |-> RoundHundredths(10000 * d[k].value,
                                                    matched[k][1], k \in up)]
                ELSE [d[k] EXCEPT !.value = 100 * d[k].value]])

\* daily series that start on a Sunday or on a Wednesday, of the values 1
\* and 2 or of zeros
SeasonStarts == {7, 10}
SeasonVals == {1, 2}

DailyFrom(start, vals) ==
    [i \in 1..Len(vals) |-> [timestamp |-> start + i - 1, value |-> vals[i]]]

SeasonSeries ==
    {DailyFrom(s, v) : s \in SeasonStarts,
                       v \in SeqsUpTo(SeasonVals, MaxSeasonLen)
                                 \cup {<<0, 0, 0, 0, 0, 0, 0, 0>>}}

\* factor lists handed to applySeasonalFactors beside the computed ones
FactorLists ==
    {<<>>, <<20000>>,
     <<0, 5000, 20000, 30000, 3333, 10000, 12500>>}

InitSeasonality ==
    /\ data \in SeasonSeries
    /\ useMedian = FALSE
    /\ limits = ZeroLimits
    /\ trendLimits = <<>>
    /\ op = "none"
    /\ result = NoResult
    /\ chart = NoChart
    /\ dividers = <<>>

CalculateSeasonalFactors ==
    /\ op = "none"
    /\ op' = "calculateSeasonalFactors"
    /\ \E up \in SUBSET FactorHalves(data) :
       \E factors \in {calculateSeasonalFactors(data, up)} :
          result' = [data    |-> data,
                     factors |-> factors,
                     matched |-> MatchedFactors(data, factors)]
    /\ UNCHANGED <<data, useMedian, limits, trendLimits, chart, dividers>>

ApplySeasonalFactors ==
    /\ op = "none"
    /\ op' = "applySeasonalFactors"
    /\ \E computed \in SUBSET FactorHalves(data) :
       \E seasonalFactors \in
              FactorLists \cup {calculateSeasonalFactors(data, computed)} :
       \E up \in SUBSET DeseasonHalves(data, seasonalFactors) :
          result' = [data           |-> data,
                     factors        |-> seasonalFactors,
                     matched        |->
                         MatchedFactors(data, seasonalFactors),
                     deseasonalized |->
                         applySeasonalFactors(data, seasonalFactors, up)]
    /\ UNCHANGED <<data, useMedian, limits, trendLimits, chart, dividers>>

NextSeasonality ==
    \/ CalculateSeasonalFactors
    \/ ApplySeasonalFactors

SpecSeasonality == InitSeasonality /\ [][NextSeasonality]_vars

----------------------------------------------------------------------------
(* The distribution analysis applied to bounded inputs                     *)

MaxDistLen == 4

DistributionVals == {1, 2, 4}

DistributionInputs ==
    {MkData(v) : v \in SeqsUpTo(DistributionVals, MaxDistLen)}

InitDistribution ==
    /\ data \in DistributionInputs
    /\ useMedian = FALSE
    /\ limits = ZeroLimits
    /\ trendLimits = <<>>
    /\ op = "none"
    /\ result = NoResult
    /\ chart = NoChart
    /\ dividers = <<>>

AnalyzeDataDistribution ==
    /\ op = "none"
    /\ op' = "analyzeDataDistribution"
    /\ result' = [values        |-> Values(data),
                  iqrMultiplier |-> analyzeDataDistribution(Values(data))]
    /\ UNCHANGED <<data, useMedian, limits, trendLimits, chart, dividers>>

NextDistribution == AnalyzeDataDistribution

SpecDistribution == InitDistribution /\ [][NextDistribution]_vars

----------------------------------------------------------------------------
(* SpecTrendDialog: the Trends dialog of submetric-trend-dialog.tsx.  The   *)
(* gradient field holds a number of hundred-millionths (toFixed(8)), the   *)
(* intercept field a number of millionths (toFixed(6)); <<>> is a text     *)
(* that is not a number.  Parsed values and regression results are exact   *)
(* fractions <<numerator, denominator>>; NaN is <<>>.                      *)

MaxTrendDialogLen == 3

GradientScale == 100000000
InterceptScale == 1000000

\* rem * scale / den rounded to the nearest integer, digit by digit, for
\* 0 <= rem < den and scale a power of 10
RECURSIVE RoundScaled(_, _, _)
RoundScaled(rem, den, scale) ==
    IF scale = 1 THEN (2 * rem + den) \div (2 * den)
    ELSE ((10 * rem) \div den) * (scale \div 10)
             + RoundScaled((10 * rem) % den, den, scale \div 10)

\* q.toFixed(digits) for the fraction q with a positive denominator, as a
\* number of 1 / scale.  No slope or intercept of the series below lies
\* halfway between two such numbers.
toFixed(q, scale) ==
    (q[1] \div q[2]) * scale + RoundScaled(q[1] % q[2], q[2], scale)

\* parseFloat of a field text
parseFloat(text, scale) ==
    IF text = <<>> THEN <<>> ELSE <<text[1], scale>>

\* the text the dialog puts into a field when it is created or opened:
\* initialStats?.m.toFixed(8) || "0"
initialText(initialStats, f, scale) ==
    IF initialStats = <<>> THEN <<0>>
    ELSE <<toFixed(initialStats[1][f], scale)>>

\* handleValueChange(index, newValue) for a newValue that is a number
handleValueChange(editedDataPoints, index, numValue) ==
    [editedDataPoints EXCEPT ![index + 1].value = numValue]

\* handleApplyTrend of the dialog: the alert shown, the call of
\* onApplyTrend and whether the dialog stays open
dialogHandleApplyTrend(editedDataPoints, gradient, intercept) ==
    Bind(calculateLinearRegression(editedDataPoints), LAMBDA stats :
        LET m == IF stats # <<>> THEN stats[1].m
                 ELSE parseFloat(gradient, GradientScale)
            c == IF stats # <<>> THEN stats[1].c
                 ELSE parseFloat(intercept, InterceptScale)
        IN  IF m = <<>> \/ c = <<>>
            THEN [alert        |-> "Please enter valid numbers for gradient and intercept",
                  onApplyTrend |-> <<>>,
                  open         |-> TRUE]
            ELSE [alert        |-> "none",
                  onApplyTrend |-> <<[gradient |-> m, intercept |-> c]>>,
                  open         |-> FALSE])

TrendDialogVals == {1, 2, 4}
TrendDialogSeries ==
    {MkData(v) : v \in SeqsUpTo(TrendDialogVals, MaxTrendDialogLen)}

\* what the user can have typed into the two fields
GradientTexts == {<<>>, <<0>>, <<150000000>>, <<-50000000>>}
InterceptTexts == {<<>>, <<0>>, <<2500000>>}

\* the rows of the table after at most one edit
EditedDataPoints(d) ==
    {d} \cup {handleValueChange(d, i, v) :
                 i \in 0..(Len(d) - 1), v \in TrendDialogVals}

InitTrendDialog ==
    /\ data \in TrendDialogSeries
    /\ useMedian = FALSE
    /\ limits = ZeroLimits
    /\ trendLimits = <<>>
    /\ op = "none"
    /\ result = NoResult
    /\ chart = NoChart
    /\ dividers = <<>>

\* The dialog is open over `data`; the user has edited rows and fields and
\* clicks Trend Limits.
ApplyTrendFromDialog ==
    /\ op = "none"
    /\ \E initialStats \in {calculateLinearRegression(data)} :
       \E editedDataPoints \in EditedDataPoints(data) :
       \E gradient \in
              {[typed |-> FALSE,
                text  |-> initialText(initialStats, "m", GradientScale)]}
                  \cup Typed(GradientTexts) :
       \E intercept \in
              {[typed |-> FALSE,
                text  |-> initialText(initialStats, "c", InterceptScale)]}
                  \cup Typed(InterceptTexts) :
       \E outcome \in {dialogHandleApplyTrend(editedDataPoints,
                                              gradient.text, intercept.text)} :
          /\ op' = "dialog.handleApplyTrend"
          /\ result' = [editedDataPoints |-> editedDataPoints,
                        gradient         |-> gradient,
                        intercept        |-> intercept,
                        alert            |-> outcome.alert,
                        onApplyTrend     |-> outcome.onApplyTrend,
                        open             |-> outcome.open]
    /\ UNCHANGED <<data, useMedian, limits, trendLimits, chart, dividers>>

NextTrendDialog == ApplyTrendFromDialog

SpecTrendDialog == InitTrendDialog /\ [][NextTrendDialog]_vars

----------------------------------------------------------------------------
(* Properties of the outlier consensus engine (SpecOutliers)               *)

\* the zScore of the point at 0-based index i exceeds 3.0
ZScoreExceedsThree(values, i) ==
    /\ SqDev(values) > 0
    /\ Dev(values, i + 1) * Dev(values, i + 1) > 9 * SqDev(values)

\* how many of the four detectors flag the 0-based index i
FlaggedBy(values, i) ==
    Cardinality({k \in 1..4 : i \in Detectors(values)[k]})

\* C2: removeOutliersFromData and calculateLimitsWithOutlierRemoval return
\* at most floor(0.25 * n) outlier indices for a series of n points.
C2_BoundedOutlierFraction ==
    OutliersDone => 4 * Len(result.outlierIndices) <= Len(data)

\* The cap cuts the list: more points pass the consensus filter with two
\* votes than the floor(0.25 * n) >= 1 that are returned.
C2_Witness ==
    /\ OutliersDone
    /\ Len(result.outlierIndices) >= 1
    /\ 4 * (Len(result.outlierIndices) + 1) > Len(data)
    /\ Cardinality({i \in 0..(Len(data) - 1) :
                       FlaggedBy(Values(data), i) >= 2})
           > Len(result.outlierIndices)

\* C3: if the last observation is in the returned outlier index list, its
\* raw z-score exceeds 3.0 (otherwise it has been restored).
C3_RecencyGuard ==
    (OutliersDone /\ (Len(data) - 1) \in SeqToSet(result.outlierIndices))
        => ZScoreExceedsThree(Values(data), Len(data) - 1)

\* C4: every returned outlier index was flagged by at least 2 of the four
\* detectors, or by at least 1 detector with a raw z-score above 3.0.
C4_Consensus ==
    OutliersDone =>
        \A i \in SeqToSet(result.outlierIndices) :
            \/ FlaggedBy(Values(data), i) >= 2
            \/ /\ FlaggedBy(Values(data), i) >= 1
               /\ ZScoreExceedsThree(Values(data), i)

\* A point is removed on the strength of a single detector and its extreme
\* z-score.
C4_Witness ==
    /\ OutliersDone
    /\ \E i \in SeqToSet(result.outlierIndices) :
          /\ FlaggedBy(Values(data), i) = 1
          /\ ZScoreExceedsThree(Values(data), i)

\* the position in the series of the j-th point that is not at one of the
\* indices
KeptPosition(n, indices, j) ==
    CHOOSE i \in 1..n :
        /\ (i - 1) \notin indices
        /\ Cardinality({h \in 1..(i - 1) : (h - 1) \notin indices}) = j - 1

\* C30: the outlier-removal report is a partition of its input.
\* outlierIndices is strictly ascending within 0..n-1, removedOutliers are
\* the input points at those indices, cleanedData are the remaining input
\* points in their original order, and the two lengths add up to n.
C30_ReportIsPartition ==
    OutliersDone =>
        LET n       == Len(data)
            idx     == result.outlierIndices
            removed == result.removedOutliers
            cleaned == result.cleanedData
        IN  /\ \A k \in 1..Len(idx) : idx[k] \in 0..(n - 1)
            /\ \A k \in 1..(Len(idx) - 1) : idx[k] < idx[k + 1]
            /\ Len(removed) = Len(idx)
            /\ \A k \in 1..Len(idx) : removed[k] = data[idx[k] + 1]
            /\ Len(cleaned) + Len(removed) = n
            /\ \A j \in 1..Len(cleaned) :
                  cleaned[j] = data[KeptPosition(n, SeqToSet(idx), j)]

\* Two points inside the series are removed with kept points before,
\* between and after them.
C30_Witness ==
    /\ op = "removeOutliersFromData"
    /\ Len(result.outlierIndices) = 2
    /\ result.outlierIndices[1] > 0
    /\ result.outlierIndices[2] > result.outlierIndices[1] + 1
    /\ result.outlierIndices[2] < Len(data) - 1
    /\ Len(result.cleanedData) = Len(data) - 2

----------------------------------------------------------------------------
(* Properties of the control-limit calculator (SpecLimits)                 *)

\* the k-th smallest element of arr
KthSmallest(arr, k) ==
    CHOOSE v \in SeqToSet(arr) :
        /\ Cardinality({i \in 1..Len(arr) : arr[i] < v}) < k
        /\ Cardinality({i \in 1..Len(arr) : arr[i] <= v}) >= k

\* the centre of arr (n >= 1) as a fraction: its mean, or its median
Centre(arr, median) ==
    IF median
    THEN IF Len(arr) % 2 = 1
         THEN <<KthSmallest(arr, (Len(arr) + 1) \div 2), 1>>
         ELSE <<KthSmallest(arr, Len(arr) \div 2)
                  + KthSmallest(arr, Len(arr) \div 2 + 1), 2>>
    ELSE <<SeqSum(arr), Len(arr)>>

\* the consecutive absolute differences of the values of d
AbsDiffs(d) ==
    [i \in 1..(Len(d) - 1) |-> Abs(d[i + 1].value - d[i].value)]

\* r hundredths is p / q rounded to 2 decimals: |r - 100 * p / q| <= 1/2
IsRounded(r, p, q) == 2 * Abs(r * q - 100 * p) <= q

C6_ShortSeriesZero ==
    (op = "calculateXMRLimits" /\ Len(data) < 2) =>
        /\ DOMAIN result = {"avgX", "avgMovement", "UNPL", "LNPL", "URL",
                            "lowerQuartile", "upperQuartile"}
        /\ \A f \in DOMAIN result : result[f] = 0

\* The calculator has answered for a single non-zero point.
C6_Witness ==
    /\ op = "calculateXMRLimits"
    /\ Len(data) = 1
    /\ data[1].value # 0

\* the alert of the lock dialog when its fields are left as they are over
\* the recalculated limits lim
UneditedAlert(lim) ==
    ValidationAlert([f \in DialogFields |-> parseFloatOr(Untyped, lim[f])])

\* C29: for every series of at least 2 points the limits that
\* calculateXMRLimits returns satisfy LNPL <= avgX <= UNPL,
\* avgMovement <= URL and UNPL > LNPL, so the lock dialog accepts them
\* when they are confirmed without an edit.
C29_ComputedLimitsPassValidation ==
    (op = "calculateXMRLimits" /\ Len(data) >= 2) =>
        /\ result.LNPL <= result.avgX
        /\ result.avgX <= result.UNPL
        /\ result.avgMovement <= result.URL
        /\ result.UNPL > result.LNPL
        /\ UneditedAlert(result) = "none"

\* The limits of a series of equal values: UNPL equals LNPL and the dialog
\* answers with the control range alert.
C29_Witness ==
    /\ op = "calculateXMRLimits"
    /\ Len(data) >= 2
    /\ \A i \in 1..Len(data) : data[i].value = data[1].value
    /\ result.UNPL = result.LNPL
    /\ UneditedAlert(result) = "UNPL must be greater than LNPL."

\* The limits are always ordered, and they are accepted whenever the
\* rounded average movement is not 0.
C29_OrderedAndAcceptedWhenMoving ==
    (op = "calculateXMRLimits" /\ Len(data) >= 2) =>
        /\ result.LNPL <= result.avgX
        /\ result.avgX <= result.UNPL
        /\ result.avgMovement <= result.URL
        /\ result.avgMovement > 0 => UneditedAlert(result) = "none"

----------------------------------------------------------------------------
(* Properties of the violation detector (SpecRules)                        *)

Detected == op = "detectViolations"

\* the indices of the points
Indices == 0..(Len(data) - 1)

\* the value of point i, and the limits it is compared with (hundredths):
\* the static limits, or the i-th trend limits when an overlay is passed
ValueOf(i) == 100 * data[i + 1].value

LimitOf(line, field, i) ==
    IF trendLimits = <<>> THEN limits[field]
    ELSE trendLimits[1][line][i + 1].value

NoDuplicates(seq) == Cardinality(SeqToSet(seq)) = Len(seq)

\* C7: index i is in outsideLimits iff value_i < LNPL_i or value_i > UNPL_i;
\* a series otherwise within the limits with a single point at
\* avgX + 5 * avgMovement has exactly that point's index in outsideLimits.
C7_Rule1 ==
    Detected =>
        /\ SeqToSet(result.outsideLimits) =
              {i \in Indices : \/ ValueOf(i) < LimitOf("lnpl", "LNPL", i)
                               \/ ValueOf(i) > LimitOf("unpl", "UNPL", i)}
        /\ \A j \in Indices :
              ( /\ trendLimits = <<>>
                /\ ValueOf(j) = limits.avgX + 5 * limits.avgMovement
                /\ \A i \in Indices \ {j} :
                      ValueOf(i) >= limits.LNPL /\ ValueOf(i) <= limits.UNPL )
              => result.outsideLimits = <<j>>

\* Under a trend overlay a point within the static limits is flagged and a
\* point outside the static limits is not.
C7_Witness ==
    /\ Detected
    /\ trendLimits # <<>>
    /\ \E i \in SeqToSet(result.outsideLimits) :
          ValueOf(i) >= limits.LNPL /\ ValueOf(i) <= limits.UNPL
    /\ \E i \in Indices \ SeqToSet(result.outsideLimits) :
          ValueOf(i) > limits.UNPL

\* points a..b lie strictly on one side of the centre line
SameSide(a, b) ==
    \/ \A i \in a..b : ValueOf(i) > LimitOf("centreLine", "avgX", i)
    \/ \A i \in a..b : ValueOf(i) < LimitOf("centreLine", "avgX", i)

\* C8 as stated: every point of a run of 8 or more points strictly on one
\* side of the centre line is flagged, and only points of such runs are.
C8_EveryPointOfRun ==
    Detected =>
        SeqToSet(result.runningPoints) =
            {i \in Indices :
                \E a, b \in Indices :
                    a <= i /\ i <= b /\ b - a + 1 >= 8 /\ SameSide(a, b)}

\* C8 (amended): index i is in runningPoints iff point i is the 8th or a
\* later point of an unbroken run of points strictly on one side of the
\* centre line; a point on the other side of, or exactly on, the centre
\* line ends the run.
C8_Rule2 ==
    Detected =>
        SeqToSet(result.runningPoints) =
            {i \in Indices : i >= 7 /\ SameSide(i - 7, i)}

\* A run reaches its 8th point, which alone is flagged, and is then ended
\* by a point exactly on the centre line.
C8_Witness ==
    /\ Detected
    /\ Len(data) = 9
    /\ result.runningPoints = <<7>>
    /\ ValueOf(8) = LimitOf("centreLine", "avgX", 8)

\* the window of 4 points starting at w holds at least 3 points beyond the
\* same quartile
NearLimitWindow(w) ==
    \/ Cardinality({j \in w..(w + 3) :
           ValueOf(j) > LimitOf("upperQuartile", "upperQuartile", j)}) >= 3
    \/ Cardinality({j \in w..(w + 3) :
           ValueOf(j) < LimitOf("lowerQuartile", "lowerQuartile", j)}) >= 3

BeyondTwoSigmaBoundary(j) ==
    LET c == LimitOf("centreLine", "avgX", j)
        u == LimitOf("unpl", "UNPL", j)
        l == LimitOf("lnpl", "LNPL", j)
    IN  \/ 133 * ValueOf(j) > 133 * c + 100 * (u - c)
        \/ 133 * ValueOf(j) < 133 * c + 100 * (l - c)

WithinOneSigmaBand(i) ==
    LET c == LimitOf("centreLine", "avgX", i)
        u == LimitOf("unpl", "UNPL", i)
        l == LimitOf("lnpl", "LNPL", i)
    IN  /\ 266 * ValueOf(i) <= 266 * c + 100 * (u - c)
        /\ 266 * ValueOf(i) >= 266 * c + 100 * (l - c)

\* C11: index i is in fifteenWithinOneSigma iff point i is the 15th or a
\* later point of an unbroken run of consecutive points within the 1-sigma
\* band; a point outside the band restarts the count at zero.
C11_Rule5 ==
    Detected =>
        /\ SeqToSet(result.fifteenWithinOneSigma) =
              {i \in Indices :
                  i >= 14 /\ \A j \in (i - 14)..i : WithinOneSigmaBand(j)}
        /\ NoDuplicates(result.fifteenWithinOneSigma)

\* A run on the edge of the band starts after a point outside it; its 15th
\* point is flagged and the 14 points before it are not.
C11_Witness ==
    /\ Detected
    /\ Len(data) = 16
    /\ ~WithinOneSigmaBand(0)
    /\ ValueOf(1) = 500
    /\ result.fifteenWithinOneSigma = <<15>>

----------------------------------------------------------------------------
(* Properties of the chart orchestration (SpecChart)                       *)

ActiveOverlays ==
    {f \in {"trendActive", "seasonalityActive", "isLimitsLocked"} : chart[f]}

\* C1: after any sequence of toolbar operations interleaved with the
\* automatic effects, at most one of trendActive, seasonalityActive and
\* isLimitsLocked is true.
C1_MutualExclusion == ~EffectsPending => Cardinality(ActiveOverlays) <= 1

\* Reached through the toolbar alone: limits locked over an active
\* deseasonalisation on a chart whose label asks for neither overlay.
C1_Witness ==
    /\ ~chart.labelHasTrend
    /\ ~chart.labelHasSeasonality
    /\ ~EffectsPending
    /\ chart.dialog = "none"
    /\ chart.seasonalityActive
    /\ chart.isLimitsLocked

----------------------------------------------------------------------------
(* Properties of the lock-limits dialog (SpecLockDialog)                   *)

\* the "Lock Limits" button of the dialog has been clicked
Clicked == op = "handleLockLimits"

\* every field shows a number
AllEntered ==
    \A f \in DialogFields :
        result.entries[f].typed => result.entries[f].text # <<>>

\* the number field f shows, in thousandths
Entered(f) ==
    IF result.entries[f].typed THEN result.entries[f].text[1]
    ELSE 10 * result.recalculated[f]

\* the three invariants, named, over the values v of the five fields
ViolatedInvariants(v(_)) ==
    {inv \in {"averageOutsideLimits", "movementExceedsURL",
              "unplNotAboveLnpl"} :
        \/ inv = "averageOutsideLimits"
              /\ (v("avgX") < v("LNPL") \/ v("avgX") > v("UNPL"))
        \/ inv = "movementExceedsURL" /\ v("avgMovement") > v("URL")
        \/ inv = "unplNotAboveLnpl" /\ v("UNPL") <= v("LNPL")}

\* the invariants the alert names
Reported ==
    IF result.alert = "Average X must be between LNPL and UNPL."
    THEN {"averageOutsideLimits"}
    ELSE IF result.alert = "Average Movement must be <= URL."
    THEN {"movementExceedsURL"}
    ELSE IF result.alert = "UNPL must be greater than LNPL."
    THEN {"unplNotAboveLnpl"}
    ELSE {}

\* C12: entered limits that violate one of the three invariants are
\* rejected: onLockLimits is not called and lockedLimits and isLimitsLocked
\* of the chart stay as they were; avgX = 20, UNPL = 15, LNPL = 10 is
\* rejected with the average-outside-limits alert.
C12_InvalidLimitsRejected ==
    (Clicked /\ AllEntered /\ ViolatedInvariants(Entered) # {}) =>
        /\ result.onLockLimits = <<>>
        /\ chart.lockedLimits = result.rendered.lockedLimits
        /\ chart.isLimitsLocked = result.rendered.isLimitsLocked
        /\ ( /\ Entered("avgX") = 20000
             /\ Entered("UNPL") = 15000
             /\ Entered("LNPL") = 10000 )
              => Reported = {"averageOutsideLimits"}

\* avgX = 20, UNPL = 15, LNPL = 10 is rejected over limits that are locked.
C12_Witness ==
    /\ Clicked
    /\ result.entries.avgX.text = <<20000>>
    /\ result.entries.UNPL.text = <<15000>>
    /\ result.entries.LNPL.text = <<10000>>
    /\ Reported = {"averageOutsideLimits"}
    /\ result.onLockLimits = <<>>
    /\ chart.isLimitsLocked
    /\ chart = result.rendered

\* the value of field f that the dialog validates: the number typed into
\* it, or the recalculated value when the field is untouched, holds no
\* number or holds 0
Validated(f) ==
    IF /\ result.entries[f].typed
       /\ result.entries[f].text # <<>>
       /\ result.entries[f].text # <<0>>
    THEN result.entries[f].text[1]
    ELSE 10 * result.recalculated[f]

C27_TypedValueTakesPrecedence ==
    (Clicked /\ AllEntered) =>
        /\ (result.alert = "none") = (ViolatedInvariants(Entered) = {})
        /\ \A f \in DialogFields :
              (result.entries[f].typed /\ result.onLockLimits # <<>>) =>
                  2 * Abs(10 * result.onLockLimits[1].limits[f] - Entered(f))
                      <= 10

\* 0 is typed into the LNPL field and the limits are locked with another
\* LNPL.
C27_Witness ==
    /\ Clicked
    /\ result.entries.LNPL.typed
    /\ result.entries.LNPL.text = <<0>>
    /\ result.onLockLimits # <<>>
    /\ result.onLockLimits[1].limits.LNPL # 0

----------------------------------------------------------------------------
(* Properties of the segmentation functions (SpecSegments)                 *)

SegmentsDetected == op = "detectViolationsWithSegments"

\* the 0-based index in the series of the observation with the timestamp
\* of `point`
GlobalIndex(point) ==
    (CHOOSE i \in 1..Len(result.points) :
        result.points[i].timestamp = point.timestamp) - 1

\* the 0-based indices `detected` of a segment's points as global indices
ToGlobal(segment, detected) ==
    [k \in 1..Len(detected) |-> GlobalIndex(segment.dataPoints[detected[k] + 1])]

\* what the segments from the k-th on report for a rule when each is run
\* through the detector against its own static limits
RECURSIVE StaticViolationsFrom(_, _)
StaticViolationsFrom(k, rule) ==
    IF k > Len(result.segments) THEN <<>>
    ELSE ToGlobal(result.segments[k],
                  detectViolations(result.segments[k].dataPoints,
                                   result.segments[k].limits, <<>>)[rule])
            \o StaticViolationsFrom(k + 1, rule)

\* the last n elements of seq
Suffix(seq, n) == SubSeq(seq, Len(seq) - n + 1, Len(seq))

\* C14: whatever lockedLimits, lockedLimitStatus and trendLimits are
\* passed, what detectViolationsWithSegments reports for the segments after
\* the first is what the detector finds in each of them against the
\* segment's own static limits; the overlays reach the first segment only.
C14_OverlaysOnFirstSegmentOnly ==
    (SegmentsDetected /\ Len(result.segments) > 0) =>
        \A rule \in ViolationRules :
            LET later == StaticViolationsFrom(2, rule)
                all   == result.violations[rule]
            IN  /\ Len(all) >= Len(later)
                /\ Suffix(all, Len(later)) = later
                /\ \A k \in 1..(Len(all) - Len(later)) :
                      \E point \in SeqToSet(result.segments[1].dataPoints) :
                          GlobalIndex(point) = all[k]

\* Locked limits and a trend are passed; a later segment reports a point
\* beyond its own limits and leaves alone a point that is beyond the locked
\* limits only.
C14_Witness ==
    /\ SegmentsDetected
    /\ Len(result.segments) = 2
    /\ result.lockedLimits # <<>>
    /\ result.lockedLimitStatus = <<LOCKED>>
    /\ result.trendLimits # <<>>
    /\ StaticViolationsFrom(2, "outsideLimits") # <<>>
    /\ \E i \in 1..Len(result.segments[2].dataPoints) :
          LET point == result.segments[2].dataPoints[i]
          IN  /\ 100 * point.value > SegmentLockedLimits.UNPL
              /\ GlobalIndex(point)
                    \notin SeqToSet(result.violations.outsideLimits)

SegmentsCalculated == op = "calculateSegmentStats"

\* the dividers hold both boundary dividers
HasBoundaries ==
    /\ \E i \in 1..Len(dividers) : dividers[i].id = "divider-start"
    /\ \E i \in 1..Len(dividers) : dividers[i].id = "divider-end"

\* the time of the named boundary divider
BoundaryX(id) ==
    (CHOOSE dv \in SeqToSet(dividers) : dv.id = id).x

\* the segments that hold the observation i of the series
SegmentsOf(i) ==
    {k \in 1..Len(result.segments) :
        \E j \in 1..Len(result.segments[k].dataPoints) :
            result.segments[k].dataPoints[j].timestamp
                = result.points[i].timestamp}

\* C15: with both boundary dividers in the divider set, every observation
\* whose timestamp lies between the boundaries belongs to exactly one
\* segment, an observation on an interior divider included.
C15_SegmentsPartition ==
    (SegmentsCalculated /\ HasBoundaries) =>
        \A i \in 1..Len(result.points) :
            ( /\ getTime(result.points[i].timestamp)
                    >= BoundaryX("divider-start")
              /\ getTime(result.points[i].timestamp)
                    <= BoundaryX("divider-end") )
                => Cardinality(SegmentsOf(i)) = 1

\* The boundaries are where createBoundaryDividers put them, one interior
\* divider stands at its default position, on an observation, and that
\* observation is in two segments.
C15_Witness ==
    /\ SegmentsCalculated
    /\ dividers = addDivider(createBoundaryDividers(data), <<>>)
    /\ \E i \in 1..Len(result.points) :
          /\ getTime(result.points[i].timestamp) = dividers[3].x
          /\ Cardinality(SegmentsOf(i)) = 2

\* C16: given locked limits and a status with the LOCKED bit set, alone or
\* with any of UNPL_MODIFIED, LNPL_MODIFIED and AVGX_MODIFIED, the first
\* segment is evaluated against the locked limits.
C16_LockedBitUsesLockedLimits ==
    ( /\ SegmentsDetected
      /\ Len(result.segments) > 0
      /\ result.lockedLimits # <<>>
      /\ result.lockedLimitStatus # <<>> ) =>
        ( HasFlag(result.lockedLimitStatus[1], LOCKED) =>
            \A rule \in ViolationRules :
                result.violations[rule] =
                    ToGlobal(result.segments[1],
                             detectViolations(result.segments[1].dataPoints,
                                              result.lockedLimits[1],
                                              <<>>)[rule])
                        \o StaticViolationsFrom(2, rule) )

\* With the status LOCKED alone the first segment reports a point that is
\* beyond the locked limits and within the segment's own.
C16_Witness ==
    /\ SegmentsDetected
    /\ result.lockedLimits # <<>>
    /\ result.lockedLimitStatus = <<LOCKED>>
    /\ result.violations.outsideLimits # <<>>
    /\ detectViolations(result.segments[1].dataPoints,
                        result.segments[1].limits, <<>>).outsideLimits = <<>>

\* the interior dividers
InteriorDividers == SelectSeq(dividers, LAMBDA dv : ~isShadowDivider(dv))

\* C17: the divider set holds exactly the two boundary dividers, at the
\* minimum and the maximum timestamp of the series, and 0 to 3 interior
\* dividers; addDivider on 3 interior dividers and removeDivider on none
\* return the set unchanged.
C17_DividerSet ==
    /\ Len(SelectSeq(dividers, LAMBDA dv : isShadowDivider(dv))) = 2
    /\ HasBoundaries
    /\ BoundaryX("divider-start") = getTime(data[1].timestamp)
    /\ BoundaryX("divider-end") = getTime(data[Len(data)].timestamp)
    /\ Len(InteriorDividers) \in 0..3
    /\ Len(InteriorDividers) = 3 =>
          \A position \in AddPositions :
              addDivider(dividers, position) = dividers
    /\ Len(InteriorDividers) = 0 => removeDivider(dividers) = dividers

\* Three interior dividers have been added and the boundaries stand where
\* createBoundaryDividers put them.
C17_Witness ==
    /\ Len(InteriorDividers) = 3
    /\ dividers[1] = [id |-> "divider-start", x |-> getTime(data[1].timestamp)]
    /\ dividers[2] =
          [id |-> "divider-end", x |-> getTime(data[Len(data)].timestamp)]

----------------------------------------------------------------------------
(* Properties of the trend overlay (SpecTrendOverlay)                      *)

\* a render with an active trend overlay
TrendRendered == chart.trendActive /\ result.trendLines # <<>>

\* the 0-based position of the observation of point p in the series
PositionOf(p, series) ==
    (CHOOSE i \in 1..Len(series) : series[i].timestamp = p.timestamp) - 1

TrendLineNames ==
    {"centreLine", "unpl", "lnpl", "lowerQuartile", "upperQuartile"}

\* C18: with an active trend overlay the k-th point handed to
\* detectViolations is compared with the trend lines of that same
\* observation: every line's k-th entry carries the point's timestamp, and
\* the k-th centre is m * i + c for the observation's own 0-based position
\* i in the series.
C18_TrendAligned ==
    TrendRendered =>
        \A k \in 1..Len(result.xmrData.dataPoints) :
            LET p == result.xmrData.dataPoints[k]
                i == PositionOf(p, result.processedDataPoints)
            IN  /\ \A line \in TrendLineNames :
                       result.trendLines[1][line][k].timestamp = p.timestamp
                /\ result.trendLines[1].centreLine[k].value =
                       chart.trendGradient * i + chart.trendIntercept

\* Every observation lies on the fitted line, and the render reports a run
\* of points on one side of the centre line.
C18_Witness ==
    /\ TrendRendered
    /\ \A i \in 1..Len(data) :
           100 * data[i].value =
               chart.trendGradient * (i - 1) + chart.trendIntercept
    /\ result.xmrData.violations.runningPoints # <<>>

----------------------------------------------------------------------------
(* Properties of the linear regression (SpecRegression)                    *)

Regressed == op = "calculateLinearRegression"

\* the residual y - (m x + c) of the point at 0-based index x, times the
\* denominators of m and c
ScaledResidual(d, r, x) ==
    d[x + 1].value * r.m[2] * r.c[2] - r.m[1] * x * r.c[2] - r.c[1] * r.m[2]

\* C19: calculateLinearRegression is null exactly for fewer than 2 points
\* or a zero index-variance denominator; otherwise m and c solve the normal
\* equations of least squares over x = 0-based index (the residuals sum to
\* zero, and so do the residuals weighted by x); the values 5, 8, 11, 14,
\* 17 give m = 3 and c = 5.
C19_LeastSquares ==
    Regressed =>
        LET d == result.data
            n == Len(d)
            r == result.regression
        IN  /\ (r = <<>>) <=> (n < 2 \/ RegressionDenominator(n) = 0)
            /\ r # <<>> =>
                /\ r[1].m[2] # 0 /\ r[1].c[2] # 0
                /\ SeqSum([i \in 1..n |-> ScaledResidual(d, r[1], i - 1)]) = 0
                /\ SeqSum([i \in 1..n |->
                              (i - 1) * ScaledResidual(d, r[1], i - 1)]) = 0
            /\ Values(d) = <<5, 8, 11, 14, 17>> =>
                /\ r # <<>>
                /\ r[1].m[1] = 3 * r[1].m[2]
                /\ r[1].c[1] = 5 * r[1].c[2]

\* The regression of 5, 8, 11, 14, 17 has been computed.
C19_Witness ==
    /\ Regressed
    /\ Values(result.data) = <<5, 8, 11, 14, 17>>
    /\ result.regression # <<>>

----------------------------------------------------------------------------
(* Properties of the quartile display (SpecQuartile)                       *)

QuartilesDecided == op = "shouldUseQuartile"

\* |UNPL + LNPL - 2 avgX| < 0.001 for limits in hundredths
Symmetric(lim) == lim.UNPL + lim.LNPL = 2 * lim.avgX

\* the status carries a manual-modification flag
Modified(status) ==
    isUnplModified(status) \/ isLnplModified(status) \/ isAvgXModified(status)

\* exactly one of UNPL and LNPL is modified, and the average is not
OneSided(status) ==
    /\ ~isAvgXModified(status)
    /\ isUnplModified(status) # isLnplModified(status)

\* C20: for every lock status, symmetric limits make both quartiles
\* displayable; asymmetric limits with a manual-modification flag suppress
\* at least one quartile.
C20_SymmetricShowsBoth ==
    QuartilesDecided =>
        IF Symmetric(result.limits)
        THEN result.use = BothQuartiles
        ELSE Modified(result.status) => result.use # BothQuartiles

\* C20, amended: without a modification flag both quartiles are shown;
\* with exactly one of UNPL and LNPL modified and the average unmodified
\* the quartile of the modified side is hidden and the other one shown,
\* symmetric limits or not; with both modified, or the average modified,
\* both are shown for symmetric limits and both hidden otherwise.  So
\* asymmetric limits with a modification flag suppress at least one.
C20_ModifiedSideHidden ==
    QuartilesDecided =>
        LET status == result.status
        IN  /\ ~Modified(status) => result.use = BothQuartiles
            /\ OneSided(status) =>
                  /\ result.use.useUpperQuartile = ~isUnplModified(status)
                  /\ result.use.useLowerQuartile = ~isLnplModified(status)
            /\ (Modified(status) /\ ~OneSided(status)) =>
                  result.use = IF Symmetric(result.limits)
                               THEN BothQuartiles ELSE NoQuartile
            /\ (Modified(status) /\ ~Symmetric(result.limits)) =>
                  result.use # BothQuartiles

\* Symmetric limits whose UNPL alone is marked modified: the upper quartile
\* is hidden.
C20_Witness ==
    /\ QuartilesDecided
    /\ Symmetric(result.limits)
    /\ result.status = LOCKED + UNPL_MODIFIED
    /\ ~result.use.useUpperQuartile
    /\ result.use.useLowerQuartile

----------------------------------------------------------------------------
(* Properties of the auto-lock decision (SpecAutoLock)                     *)

AutoLockDecided == op = "shouldAutoLockLimits"

\* stdDev / |mean| > 0.05 for a non-zero mean: with n values of sum S the
\* squared coefficient is SqDev / S^2, and 0.05^2 = 1 / 400
VariationAboveFivePercent(values) ==
    /\ SeqSum(values) # 0
    /\ 400 * SqDev(values) > SeqSum(values) * SeqSum(values)

\* C21: shouldAutoLockLimits is true exactly when the series has the
\* minimum number of points, its coefficient of variation is above 0.05 and
\* removeOutliersFromData detects an outlier.
C21_AutoLockIff ==
    AutoLockDecided =>
        ( result.autoLock <=>
            /\ Len(result.data) >= MIN_DATA_POINTS
            /\ VariationAboveFivePercent(Values(result.data))
            /\ result.outliers # <<>> )

\* A series with a coefficient of variation of at most 0.05 is auto-locked.
C21_Witness ==
    /\ AutoLockDecided
    /\ result.autoLock
    /\ ~VariationAboveFivePercent(Values(result.data))

----------------------------------------------------------------------------
(* Properties of the auto-lock effect (SpecChart)                          *)

----------------------------------------------------------------------------
(* Properties of the seasonality periods (SpecPeriods)                     *)

PeriodsMapped == op = "getPeriodDisableMap"

\* every two consecutive points of the series are g days apart
SampledEvery(d, g) ==
    /\ Len(d) >= 2
    /\ \A i \in 1..(Len(d) - 1) : d[i + 1].timestamp - d[i].timestamp = g

\* the periods that are coarser than data sampled every g days
CoarserPeriods(g) ==
    CASE g = 1   -> {"week", "month", "quarter", "year"}
      [] g = 7   -> {"month", "quarter", "year"}
      [] g = 30  -> {"quarter", "year"}
      [] g = 91  -> {"year"}
      [] g = 365 -> {}

\* C23: a period is enabled exactly when the series is sampled finer than
\* the period: daily data has all four periods enabled, weekly data all
\* but week, monthly data quarter and year, quarterly data only year, and
\* yearly data none.
C23_EnabledIffFiner ==
    PeriodsMapped =>
        \A g \in Gaps :
            SampledEvery(result.data, g) =>
                \A p \in SeasonalityPeriods :
                    ~result.disableMap[p] <=> p \in CoarserPeriods(g)

\* Daily data, and the week period is disabled.
C23_Witness ==
    /\ PeriodsMapped
    /\ SampledEvery(result.data, 1)
    /\ result.disableMap["week"]

----------------------------------------------------------------------------
(* Properties of the seasonal factors (SpecSeasonality)                    *)

FactorsCalculated == op = "calculateSeasonalFactors"

\* the sum and the number of the observations on the day of the week `day`
DayValues(d, day) ==
    SelectSeq(Values(SelectSeq(d, LAMBDA p : getDay(p.timestamp) = day)),
              LAMBDA v : TRUE)

\* sf is mean(values on that day of the week) / overall mean rounded to 4
\* decimals, or 1.0 when the overall mean is zero
IsFactorOfDay(d, day, sf) ==
    LET p == SeqSum(DayValues(d, day)) * Len(d)
        q == Len(DayValues(d, day)) * SeqSum(Values(d))
    IN  IF SeqSum(Values(d)) = 0 THEN sf = 10000
        ELSE 2 * Abs(sf * q - 10000 * p) <= q

\* C24: every observation is matched with the factor of its own position
\* in the period (its day of the week), which is the mean of all values at
\* that position over the overall mean, or 1.0 for a zero overall mean; so
\* observations at the same position share one factor, also when the first
\* or the last period is incomplete.
C24_FactorPerPosition ==
    FactorsCalculated =>
        \A k \in 1..Len(result.data) :
            LET point == result.data[k]
                sf == result.matched[k]
            IN  /\ sf # <<>>
                /\ IsFactorOfDay(result.data, getDay(point.timestamp), sf[1])

\* The series starts in the middle of a week, and two observations on the
\* same day of the week are matched with different factors.
C24_Witness ==
    /\ FactorsCalculated
    /\ Len(result.data) > 0
    /\ getDay(result.data[1].timestamp) # 0
    /\ \E k, l \in 1..Len(result.data) :
          /\ getDay(result.data[k].timestamp) = getDay(result.data[l].timestamp)
          /\ result.matched[k] # result.matched[l]

FactorsApplied == op = "applySeasonalFactors"

\* the factor applySeasonalFactors matched with the k-th observation
MatchedFactor(k) == result.matched[k]

\* deseasonalised value times factor minus original value, in millionths
RoundTripError(k) ==
    result.deseasonalized[k].value * MatchedFactor(k)[1]
        - 1000000 * result.data[k].value

----------------------------------------------------------------------------
(* Properties of the distribution analysis (SpecDistribution)              *)

Analyzed == op = "analyzeDataDistribution"

\* coefficient of variation of a <= that of b: the squared coefficient is
\* SqDev / S^2, and 0 for an empty series or a zero mean
VariationAtMost(a, b) ==
    LET sa == SeqSum(a)
        sb == SeqSum(b)
    IN  \/ Len(a) = 0
        \/ sa = 0
        \/ /\ Len(b) > 0
           /\ sb # 0
           /\ SqDev(a) * sb * sb <= SqDev(b) * sa * sa

\* |skewness| > 1: the skewness is the sum of Dev^3 over n * SqDev^(3/2)
Skewed(values) ==
    LET n  == Len(values)
        s3 == SeqSum([i \in 1..n |->
                  Dev(values, i) * Dev(values, i) * Dev(values, i)])
        sq == IF n = 0 THEN 0 ELSE SqDev(values)
    IN  sq > 0 /\ s3 * s3 > n * n * sq * sq * sq

\* C26: the IQR multiplier does not increase with the coefficient of
\* variation, and an absolute skewness above 1 adds an increment: of two
\* series alike in skewedness the one with the lower coefficient has at
\* least the multiplier of the other, and a skewed series has a larger
\* multiplier than any unskewed series of at least its coefficient.
C26_MultiplierFallsWithVariation ==
    Analyzed =>
        \A other \in {Values(d) : d \in DistributionInputs} :
            VariationAtMost(result.values, other) =>
                /\ Skewed(result.values) = Skewed(other) =>
                      result.iqrMultiplier >= analyzeDataDistribution(other)
                /\ (Skewed(result.values) /\ ~Skewed(other)) =>
                      result.iqrMultiplier > analyzeDataDistribution(other)

\* A series without variation gets the smallest multiplier, below that of
\* an unskewed series with a higher coefficient of variation.
C26_Witness ==
    /\ Analyzed
    /\ Len(result.values) > 0
    /\ SqDev(result.values) = 0
    /\ result.iqrMultiplier = IQR_MULTIPLIER_AGGRESSIVE
    /\ \E other \in {Values(d) : d \in DistributionInputs} :
          /\ ~Skewed(other)
          /\ VariationAtMost(result.values, other)
          /\ analyzeDataDistribution(other) > result.iqrMultiplier

----------------------------------------------------------------------------
(* Properties of the Trends dialog (SpecTrendDialog)                        *)

TrendLimitsClicked == op = "dialog.handleApplyTrend"

\* the fractions a and b are the same number
SameNumber(a, b) ==
    IF a[2] = b[2] THEN a[1] = b[1] ELSE a[1] * b[2] = b[1] * a[2]

\* both fields hold a number, and at least one of them was typed
ValidManualEquation ==
    /\ result.gradient.typed \/ result.intercept.typed
    /\ result.gradient.text # <<>>
    /\ result.intercept.text # <<>>

\* C28: when the gradient and intercept fields hold valid numbers, the
\* typed gradient and the typed intercept are the values passed to
\* onApplyTrend, not a regression recomputed from the table.
C28_TypedEquationApplied ==
    (TrendLimitsClicked /\ ValidManualEquation) =>
        /\ result.onApplyTrend # <<>>
        /\ result.gradient.typed =>
              SameNumber(result.onApplyTrend[1].gradient,
                         <<result.gradient.text[1], GradientScale>>)
        /\ result.intercept.typed =>
              SameNumber(result.onApplyTrend[1].intercept,
                         <<result.intercept.text[1], InterceptScale>>)

\* gradient 1.5 and intercept 2.5 are typed over a table of at least 2
\* rows and onApplyTrend receives another gradient
C28_Witness ==
    /\ TrendLimitsClicked
    /\ Len(result.editedDataPoints) >= 2
    /\ result.gradient = [typed |-> TRUE, text |-> <<150000000>>]
    /\ result.intercept = [typed |-> TRUE, text |-> <<2500000>>]
    /\ result.onApplyTrend # <<>>
    /\ ~SameNumber(result.onApplyTrend[1].gradient, <<3, 2>>)

\* with fewer than 2 rows the typed numbers are the ones applied
C28_TypedAppliedWithoutRegression ==
    (TrendLimitsClicked /\ ValidManualEquation
         /\ Len(result.editedDataPoints) < 2) =>
        /\ result.onApplyTrend # <<>>
        /\ SameNumber(result.onApplyTrend[1].gradient,
                      <<result.gradient.text[1], GradientScale>>)
        /\ SameNumber(result.onApplyTrend[1].intercept,
                      <<result.intercept.text[1], InterceptScale>>)

=============================================================================
